---- MODULE Spec2Model ----
(***************************************************************************)
(* meta-fuse: projection of the meta:events stream into a virtual          *)
(* filesystem.                                                             *)
(*                                                                         *)
(* Modelled components                                                     *)
(*   - the store (flat keys file:<id>/<prop>) and the meta:events stream,  *)
(*     both written by the external writer (meta-sort);                    *)
(*   - RedisClient: readStreamFrom, replayStream, startSimpleStreamConsumer*)
(*     and getProperty;                                                    *)
(*   - StreamingStateBuilder: processEvent and its handlers;               *)
(*   - VirtualFileSystem: the node tree, its indices, computeVirtualPath,  *)
(*     onFileComplete / onFileDelete and refresh;                          *)
(*   - APIServer.handleUpdateRules and ConfigStorage's rule file.          *)
(*                                                                         *)
(* Conventions                                                             *)
(*   - a string that flows into a path is a sequence of one-character      *)
(*     strings, so that dirname, basename, normalizePath and sanitizePath  *)
(*     are computed character by character as the code does;               *)
(*   - property and field names are atomic strings; split('.') and         *)
(*     normalizePropertyPath are tables over the names the model uses;     *)
(*   - a JavaScript value is a record [k, s, n, b] (kind, string, number,  *)
(*     boolean) so that values of different kinds stay comparable;         *)
(*   - an asynchronous function is cut at its awaits that do I/O (XREAD    *)
(*     and GET): the code between two such awaits is one atomic step.      *)
(***************************************************************************)
EXTENDS Integers, Sequences, FiniteSets, TLC

(***************************************************************************)
(* Bounds of the model                                                     *)
(***************************************************************************)
\* longest stream the writer produces
MaxStream == 3
\* batchSize of replayStream (the code passes 100) scaled to the model
BatchSize == 2
\* COUNT of the live-tail XREAD (the code passes 10) scaled to the model
LiveCount == 2
\* number of rule saves (PUT /api/fuse/rules) in a behaviour
MaxSaves == 1
\* number of refreshes started in a behaviour
MaxRefresh == 1
\* number of connection losses of the store in a behaviour
MaxDisconnect == 1

(***************************************************************************)
(* Strings as character sequences                                          *)
(***************************************************************************)
Slash == "/"

StartsWith(s, pre) ==
    /\ Len(pre) <= Len(s)
    /\ SubSeq(s, 1, Len(pre)) = pre

EndsWith(s, suf) ==
    /\ Len(suf) <= Len(s)
    /\ SubSeq(s, Len(s) - Len(suf) + 1, Len(s)) = suf

\* s.slice(from) with a 0-based index
SliceFrom(s, from) == SubSeq(s, from + 1, Len(s))

\* s.slice(0, to) with a 0-based exclusive end
SliceTo(s, to) == SubSeq(s, 1, to)

\* 0-based positions i of s (1 <= i+1 <= Len) holding character c
Positions(s, c) == {i \in 0..(Len(s) - 1) : s[i + 1] = c}

SetMax(S) == CHOOSE x \in S : \A y \in S : y <= x
SetMin(S) == CHOOSE x \in S : \A y \in S : x <= y

\* path.posix.dirname: scans from the end down to index 1; the first slash
\* met after a non-slash character ends the directory part.
PathDirname(p) ==
    IF Len(p) = 0 THEN <<".">>
    ELSE
      LET hasRoot == p[1] = Slash
          \* 0-based indices i >= 1 that hold a slash and have a non-slash after them
          cands == {i \in 1..(Len(p) - 1) :
                      /\ p[i + 1] = Slash
                      /\ \E j \in (i + 1)..(Len(p) - 1) : p[j + 1] # Slash}
      IN IF cands = {}
           THEN (IF hasRoot THEN <<Slash>> ELSE <<".">>)
           ELSE LET end == SetMax(cands)
                IN IF hasRoot /\ end = 1 THEN <<Slash, Slash>>
                   ELSE SliceTo(p, end)

\* path.posix.basename without a suffix: trailing slashes are skipped, the
\* result is the last run of non-slash characters.
PathBasename(p) ==
    LET nonSlash == {i \in 0..(Len(p) - 1) : p[i + 1] # Slash}
    IN IF nonSlash = {} THEN <<>>
       ELSE LET end == SetMax(nonSlash) + 1
                before == {i \in 0..(end - 1) : p[i + 1] = Slash}
                start == IF before = {} THEN 0 ELSE SetMax(before) + 1
            IN SubSeq(p, start + 1, end)

\* path.posix.extname(p).slice(1): the text after the last dot of the
\* basename, empty when there is no dot or the dot is its first character.
PathExtnameNoDot(p) ==
    LET b == PathBasename(p)
        dots == Positions(b, ".")
    IN IF dots = {} \/ SetMax(dots) = 0 THEN <<>>
       ELSE SliceFrom(b, SetMax(dots) + 1)

\* sourcePath.split('/').pop(): the text after the last slash
SplitPop(p) ==
    LET sl == Positions(p, Slash)
    IN IF sl = {} THEN p ELSE SliceFrom(p, SetMax(sl) + 1)

(***************************************************************************)
(* JavaScript values                                                       *)
(***************************************************************************)
Undef == [k |-> "undef", s |-> <<>>, n |-> 0, b |-> FALSE]
NaN == [k |-> "nan", s |-> <<>>, n |-> 0, b |-> FALSE]
Str(x) == [k |-> "str", s |-> x, n |-> 0, b |-> FALSE]
Num(x) == [k |-> "num", s |-> <<>>, n |-> x, b |-> FALSE]
Bool(x) == [k |-> "bool", s |-> <<>>, n |-> 0, b |-> x]
\* an object such as metadata.titles: only its presence is observable
Obj == [k |-> "obj", s |-> <<>>, n |-> 0, b |-> FALSE]

Digits == <<"0", "1", "2", "3", "4", "5", "6", "7", "8", "9">>
DigitSet == {Digits[i] : i \in 1..10}
DigitValue(c) == (CHOOSE i \in 1..10 : Digits[i] = c) - 1

RECURSIVE NumToStr(_)
NumToStr(n) ==
    IF n < 10 THEN <<Digits[n + 1]>>
    ELSE NumToStr(n \div 10) \o <<Digits[(n % 10) + 1]>>

RECURSIVE DigitsToNum(_)
DigitsToNum(s) ==
    IF Len(s) = 0 THEN 0
    ELSE 10 * DigitsToNum(SubSeq(s, 1, Len(s) - 1)) + DigitValue(s[Len(s)])

\* the longest prefix of s made of digits
LeadingDigits(s) ==
    LET stop == {i \in 1..Len(s) : s[i] \notin DigitSet}
    IN IF stop = {} THEN s ELSE SubSeq(s, 1, SetMin(stop) - 1)

\* parseInt(s, 10) on the strings of the model (no sign, no leading space)
ParseInt(s) ==
    IF LeadingDigits(s) = <<>> THEN NaN ELSE Num(DigitsToNum(LeadingDigits(s)))

\* String(v)
ToStr(v) ==
    CASE v.k = "str" -> v.s
      [] v.k = "num" -> NumToStr(v.n)
      [] v.k = "bool" -> IF v.b THEN <<"t", "r", "u", "e">> ELSE <<"f", "a", "l", "s", "e">>
      [] v.k = "nan" -> <<"N", "a", "N">>
      [] v.k = "obj" -> <<"[", "o", "b", "j", "e", "c", "t", " ",
                          "O", "b", "j", "e", "c", "t", "]">>
      [] OTHER -> <<"u", "n", "d", "e", "f", "i", "n", "e", "d">>

\* Number(v)
ToNum(v) ==
    CASE v.k = "num" -> v
      [] v.k = "bool" -> Num(IF v.b THEN 1 ELSE 0)
      [] v.k = "str" ->
           IF v.s = <<>> THEN Num(0)
           ELSE IF LeadingDigits(v.s) = v.s THEN Num(DigitsToNum(v.s)) ELSE NaN
      [] OTHER -> NaN

\* a test for a missing value that takes the number 0 for missing as well
IsNullishOrZero(v) == v.k = "undef" \/ (v.k = "num" /\ v.n = 0)

\* value === null || value === undefined
IsNullish(v) == v.k = "undef"

\* the truthiness of a value in if (v), v || w
Truthy(v) ==
    CASE v.k = "str" -> v.s # <<>>
      [] v.k = "num" -> v.n # 0
      [] v.k = "bool" -> v.b
      [] v.k = "obj" -> TRUE
      [] OTHER -> FALSE

\* a === b on values of the model (NaN differs from itself)
StrictEq(a, b) == a.k # "nan" /\ a = b

LowerLetters ==
    <<"a", "b", "c", "d", "e", "f", "g", "h", "i", "j", "k", "l", "m",
      "n", "o", "p", "q", "r", "s", "t", "u", "v", "w", "x", "y", "z">>
UpperLetters ==
    <<"A", "B", "C", "D", "E", "F", "G", "H", "I", "J", "K", "L", "M",
      "N", "O", "P", "Q", "R", "S", "T", "U", "V", "W", "X", "Y", "Z">>
LetterSet == {LowerLetters[i] : i \in 1..26} \cup {UpperLetters[i] : i \in 1..26}

ToLowerChar(c) ==
    IF \E i \in 1..26 : UpperLetters[i] = c
    THEN LowerLetters[CHOOSE i \in 1..26 : UpperLetters[i] = c]
    ELSE c

\* s.toLowerCase()
ToLowerCase(s) == [i \in 1..Len(s) |-> ToLowerChar(s[i])]

\* s.padStart(n, '0')
RECURSIVE PadStart(_, _)
PadStart(s, n) == IF Len(s) >= n THEN s ELSE PadStart(<<"0">> \o s, n)

(***************************************************************************)
(* Literals of the code                                                    *)
(***************************************************************************)
\* VFSConfig.filesPath, default '/files'
FilesPath == <<"/", "f", "i", "l", "e", "s">>
UnsortedDir == <<"U", "n", "s", "o", "r", "t", "e", "d", "/">>
UnknownName == <<"u", "n", "k", "n", "o", "w", "n">>
TrueStr == <<"t", "r", "u", "e">>
VideoExts ==
    {<<"m", "k", "v">>, <<"m", "p", "4">>, <<"a", "v", "i">>, <<"m", "o", "v">>,
     <<"w", "m", "v">>, <<"f", "l", "v">>, <<"w", "e", "b", "m">>, <<"m", "4", "v">>}
SubtitleExts ==
    {<<"s", "r", "t">>, <<"a", "s", "s">>, <<"s", "s", "a">>, <<"s", "u", "b">>,
     <<"i", "d", "x">>, <<"v", "t", "t">>}
TorrentExts == {<<"t", "o", "r", "r", "e", "n", "t">>}
VideoType == <<"v", "i", "d", "e", "o">>
SubtitleType == <<"s", "u", "b", "t", "i", "t", "l", "e">>
TorrentType == <<"t", "o", "r", "r", "e", "n", "t">>

(***************************************************************************)
(* Flat properties to typed metadata                                       *)
(***************************************************************************)
\* props.<name>: a flat property map is a function from the property names
\* it holds to their string values
Prop(props, name) == IF name \in DOMAIN props THEN Str(props[name]) ELSE Undef

\* a ?? b
Coalesce(a, b) == IF IsNullish(a) THEN b ELSE a

\* the source path resolved against FILES_VOLUME
ResolveSourcePath(originalPath) ==
    IF originalPath # <<>> /\ ~StartsWith(originalPath, <<Slash>>)
    THEN FilesPath \o <<Slash>> \o originalPath
    ELSE IF ~StartsWith(originalPath, FilesPath) /\ StartsWith(originalPath, <<Slash>>)
         THEN FilesPath \o originalPath
         ELSE originalPath

InferFileType(fileType, extension) ==
    IF ~Truthy(fileType) /\ Truthy(extension)
    THEN LET e == ToLowerCase(extension.s)
         IN IF e \in VideoExts THEN Str(VideoType)
            ELSE IF e \in SubtitleExts THEN Str(SubtitleType)
            ELSE IF e \in TorrentExts THEN Str(TorrentType)
            ELSE fileType
    ELSE fileType

\* VirtualFileSystem.flatPropertiesToMetadata; ctime is left out, the other
\* fields are those of the code.  An mtime property is a string of digits
\* (epoch milliseconds): Date.parse gives NaN for it and parseFloat its
\* number; without the property mtime is 0.
flatPropertiesToMetadata(props, hashId) ==
    LET originalPath == Coalesce(Prop(props, "filePath"), Str(<<>>)).s
        sourcePath == ResolveSourcePath(originalPath)
        pathFileName == IF sourcePath # <<>> THEN Str(PathBasename(sourcePath)) ELSE Undef
        fileName == Coalesce(Prop(props, "fileName"), pathFileName)
        extension == Coalesce(Prop(props, "extension"),
                              IF Truthy(pathFileName)
                              THEN Str(PathExtnameNoDot(pathFileName.s)) ELSE Undef)
        size == ParseInt(Coalesce(Prop(props, "fileSize"),
                           Coalesce(Prop(props, "size"),
                             Coalesce(Prop(props, "sizeByte"), Str(<<"0">>)))).s)
        hasEng == Truthy(Prop(props, "titles/eng"))
        season == IF "season" \in DOMAIN props THEN ParseInt(props["season"]) ELSE Undef
        episode == IF "episode" \in DOMAIN props THEN ParseInt(props["episode"]) ELSE Undef
        movieYear == IF Truthy(Prop(props, "movieYear"))
                     THEN ParseInt(props["movieYear"]) ELSE Undef
        year == IF Truthy(Prop(props, "year")) THEN ParseInt(props["year"]) ELSE movieYear
    IN [sourcePath |-> Str(sourcePath),
        originalPath |-> Str(originalPath),
        size |-> size,
        mtime |-> IF Truthy(Prop(props, "mtime")) THEN ParseInt(props["mtime"]) ELSE Num(0),
        hashId |-> hashId,
        title |-> Prop(props, "title"),
        titles |-> IF hasEng THEN Obj ELSE Undef,
        titlesEng |-> IF hasEng THEN Prop(props, "titles/eng") ELSE Undef,
        originalTitle |-> Prop(props, "originalTitle"),
        fileName |-> fileName,
        season |-> season,
        episode |-> episode,
        extra |-> Bool(Prop(props, "extra") = Str(TrueStr)),
        movieYear |-> movieYear,
        year |-> year,
        fileType |-> InferFileType(Prop(props, "fileType"), extension),
        extension |-> extension,
        version |-> Prop(props, "version"),
        subtitleLanguage |-> Prop(props, "subtitleLanguage")]

\* TemplateEngine.getNestedValue on a typed metadata record: the field is
\* split on '.', each part indexes the object reached so far; a part applied
\* to a value that is no object gives undefined.
getNestedValue(md, field) ==
    CASE field = "sourcePath" -> md.sourcePath
      [] field = "originalPath" -> md.originalPath
      [] field = "size" -> md.size
      [] field = "mtime" -> md.mtime
      [] field = "hashId" -> Str(<<md.hashId>>)
      [] field = "title" -> md.title
      [] field = "titles" -> md.titles
      [] field = "titles.eng" -> md.titlesEng
      [] field = "originalTitle" -> md.originalTitle
      [] field = "fileName" -> md.fileName
      [] field = "season" -> md.season
      [] field = "episode" -> md.episode
      [] field = "extra" -> md.extra
      [] field = "movieYear" -> md.movieYear
      [] field = "year" -> md.year
      [] field = "fileType" -> md.fileType
      [] field = "extension" -> md.extension
      [] field = "version" -> md.version
      [] field = "subtitleLanguage" -> md.subtitleLanguage
      [] OTHER -> Undef

(***************************************************************************)
(* Template engine.  A template is given as the token sequence tokenize()  *)
(* produces for it.                                                        *)
(***************************************************************************)
NoTokens == <<>>
Lit(s) ==
    [type |-> "literal", value |-> s, field |-> "", format |-> "",
     defaultIsField |-> FALSE, defaultField |-> "", defaultLit |-> <<>>, inner |-> NoTokens]
Var(f) ==
    [type |-> "variable", value |-> <<>>, field |-> f, format |-> "",
     defaultIsField |-> FALSE, defaultField |-> "", defaultLit |-> <<>>, inner |-> NoTokens]
VarFmt(f, fmt) ==
    [type |-> "variable", value |-> <<>>, field |-> f, format |-> fmt,
     defaultIsField |-> FALSE, defaultField |-> "", defaultLit |-> <<>>, inner |-> NoTokens]
Opt(f) ==
    [type |-> "optional", value |-> <<>>, field |-> f, format |-> "",
     defaultIsField |-> FALSE, defaultField |-> "", defaultLit |-> <<>>, inner |-> NoTokens]
CondTok(f, innerTokens) ==
    [type |-> "conditional", value |-> <<>>, field |-> f, format |-> "",
     defaultIsField |-> FALSE, defaultField |-> "", defaultLit |-> <<>>, inner |-> innerTokens]
\* {f|g} where g matches the field-name pattern
DefField(f, g) ==
    [type |-> "default", value |-> <<>>, field |-> f, format |-> "",
     defaultIsField |-> TRUE, defaultField |-> g, defaultLit |-> <<>>, inner |-> NoTokens]
\* {f|text} where text does not match the field-name pattern
DefLit(f, text) ==
    [type |-> "default", value |-> <<>>, field |-> f, format |-> "",
     defaultIsField |-> FALSE, defaultField |-> "", defaultLit |-> text, inner |-> NoTokens]

ToUpperChar(c) ==
    IF \E i \in 1..26 : LowerLetters[i] = c
    THEN UpperLetters[CHOOSE i \in 1..26 : LowerLetters[i] = c]
    ELSE c

\* TemplateEngine.applyFormat (value is not null here)
applyFormat(value, format) ==
    LET strValue == ToStr(value)
    IN CASE format = "pad2" -> PadStart(strValue, 2)
         [] format = "pad3" -> PadStart(strValue, 3)
         [] format = "pad4" -> PadStart(strValue, 4)
         [] format \in {"upper", "uppercase"} ->
              [i \in 1..Len(strValue) |-> ToUpperChar(strValue[i])]
         [] format \in {"lower", "lowercase"} -> ToLowerCase(strValue)
         [] OTHER -> strValue

Formatted(value, format) ==
    IF format # "" THEN applyFormat(value, format) ELSE ToStr(value)

\* the result of an interpolation: [ok |-> FALSE] stands for null
Interpolated(s) == [ok |-> TRUE, s |-> s]
NullResult == [ok |-> FALSE, s |-> <<>>]

\* innerResult ?? '' for the inner template of a conditional
OrEmpty(innerResult) == IF innerResult.ok THEN innerResult ELSE Interpolated(<<>>)

\* the fallback field of a default token: its value, or null
FromFallback(fallbackValue) ==
    IF ~IsNullish(fallbackValue) THEN Interpolated(ToStr(fallbackValue)) ELSE NullResult

\* piece and the interpolation of the rest of the template put together
Joined(piece, rest) ==
    IF piece.ok /\ rest.ok THEN Interpolated(piece.s \o rest.s) ELSE NullResult

\* TemplateEngine.interpolate.  TokenPiece is the switch over the token
\* type, value being the token's field looked up in the metadata.
RECURSIVE interpolate(_, _)
RECURSIVE TokenPiece(_, _, _)
TokenPiece(t, md, value) ==
    CASE t.type = "literal" -> Interpolated(t.value)
      [] t.type = "variable" ->
           IF IsNullish(value) THEN NullResult
           ELSE Interpolated(Formatted(value, t.format))
      [] t.type = "optional" ->
           IF IsNullish(value) THEN Interpolated(<<>>)
           ELSE Interpolated(Formatted(value, t.format))
      [] t.type = "conditional" ->
           IF IsNullish(value) THEN Interpolated(<<>>)
           ELSE OrEmpty(interpolate(t.inner, md))
      [] OTHER ->
           IF ~IsNullish(value) THEN Interpolated(ToStr(value))
           ELSE IF t.defaultIsField
                THEN FromFallback(getNestedValue(md, t.defaultField))
                ELSE Interpolated(t.defaultLit)

interpolate(tokens, md) ==
    IF tokens = <<>> THEN Interpolated(<<>>)
    ELSE Joined(TokenPiece(Head(tokens), md, getNestedValue(md, Head(tokens).field)),
                interpolate(Tail(tokens), md))

\* TemplateEngine.extractVariables: the field of every token that has one,
\* and those of the inner template of a conditional
RECURSIVE extractVariables(_)
extractVariables(tokens) ==
    IF tokens = <<>> THEN {}
    ELSE LET t == Head(tokens)
         IN (IF t.field # "" THEN {t.field} ELSE {})
            \cup (IF t.type = "conditional" THEN extractVariables(t.inner) ELSE {})
            \cup extractVariables(Tail(tokens))

(***************************************************************************)
(* Condition evaluator                                                     *)
(***************************************************************************)
Cnd(type, field, value) ==
    [isGroup |-> FALSE, operator |-> "", conditions |-> <<>>,
     type |-> type, field |-> field, value |-> value]
Grp(operator, conditions) ==
    [isGroup |-> TRUE, operator |-> operator, conditions |-> conditions,
     type |-> "", field |-> "", value |-> Undef]

\* RenamingRuleTypes.isConditionGroup
isConditionGroup(c) == c.isGroup

\* s.includes(t)
Includes(s, t) ==
    \E i \in 0..(Len(s) - Len(t)) : SubSeq(s, i + 1, i + Len(t)) = t

\* ConditionEvaluator.evaluateCondition.  MATCHES is evaluated for patterns
\* without metacharacters, for which the regular expression test is a
\* substring test.
evaluateCondition(condition, md) ==
    LET value == getNestedValue(md, condition.field)
        cv == condition.value
    IN CASE condition.type = "EXISTS" -> ~IsNullish(value)
         [] condition.type = "NOT_EXISTS" -> IsNullish(value)
         [] condition.type = "EQUALS" ->
              IF cv.k = "bool" THEN StrictEq(value, cv)
              ELSE IF cv.k = "num" THEN StrictEq(ToNum(value), cv)
              ELSE ToStr(value) = ToStr(cv)
         [] condition.type = "NOT_EQUALS" ->
              IF cv.k = "bool" THEN ~StrictEq(value, cv)
              ELSE IF cv.k = "num" THEN ~StrictEq(ToNum(value), cv)
              ELSE ToStr(value) # ToStr(cv)
         [] condition.type = "CONTAINS" ->
              IF IsNullish(value) THEN FALSE ELSE Includes(ToStr(value), ToStr(cv))
         [] condition.type = "MATCHES" ->
              IF IsNullish(value) THEN FALSE ELSE Includes(ToStr(value), ToStr(cv))
         [] OTHER -> FALSE

\* ConditionEvaluator.evaluateGroup on a condition group
RECURSIVE evaluateGroup(_, _)
evaluateGroup(group, md) ==
    IF Len(group.conditions) = 0 THEN TRUE
    ELSE LET result(i) ==
               IF isConditionGroup(group.conditions[i])
               THEN evaluateGroup(group.conditions[i], md)
               ELSE evaluateCondition(group.conditions[i], md)
         IN IF group.operator = "AND"
            THEN \A i \in 1..Len(group.conditions) : result(i)
            ELSE \E i \in 1..Len(group.conditions) : result(i)

\* evaluateGroup reads group.conditions.length: when a rule's conditions are
\* a single Condition (which ConditionEvaluator.validate accepts), the
\* property is undefined and the call throws a TypeError.
evaluateGroupThrows(group) == ~isConditionGroup(group)

\* RulesPropertyExtractor.extractConditionFields
RECURSIVE extractConditionFields(_)
extractConditionFields(c) ==
    IF isConditionGroup(c)
    THEN UNION {extractConditionFields(c.conditions[i]) : i \in 1..Len(c.conditions)}
    ELSE {c.field}

(***************************************************************************)
(* Path sanitization and rule selection                                    *)
(***************************************************************************)
IllegalChars == {"<", ">", ":", "\"", "|", "?", "*"}

RECURSIVE RemoveChars(_, _)
RemoveChars(s, bad) ==
    IF s = <<>> THEN <<>>
    ELSE (IF Head(s) \in bad THEN <<>> ELSE <<Head(s)>>) \o RemoveChars(Tail(s), bad)

\* RenamingRule.sanitizePath
sanitizePath(newPath) ==
    LET hasDrive == Len(newPath) >= 2 /\ newPath[1] \in LetterSet /\ newPath[2] = ":"
        drive == IF hasDrive THEN SubSeq(newPath, 1, 2) ELSE <<>>
        pathWithoutDrive == SliceFrom(newPath, Len(drive))
        cleanPath == drive \o RemoveChars(pathWithoutDrive, IllegalChars)
    IN [i \in 1..Len(cleanPath) |-> IF cleanPath[i] = "\\" THEN Slash ELSE cleanPath[i]]

Rule(id, enabled, priority, conditions, template, fallbackToUnsorted) ==
    [id |-> id, enabled |-> enabled, priority |-> priority, conditions |-> conditions,
     template |-> template, fallbackToUnsorted |-> fallbackToUnsorted]

\* the rules in config order, disabled ones included
sortedRulesAsGiven(rules) == rules

\* [...rules].filter(r => r.enabled).sort((a, b) => b.priority - a.priority):
\* descending priority, equal priorities keep their order (the sort is stable)
sortedRules(rules) ==
    LET enabled == {i \in 1..Len(rules) : rules[i].enabled}
        rank(i) == Cardinality({j \in enabled :
                       \/ rules[j].priority > rules[i].priority
                       \/ (rules[j].priority = rules[i].priority /\ j < i)})
    IN [k \in 1..Cardinality(enabled) |->
          rules[CHOOSE i \in enabled : rank(i) = k - 1]]

\* metadata.fileName || sourcePath.split('/').pop() || 'unknown'
FallbackFileName(md, sourcePath) ==
    IF Truthy(md.fileName) THEN md.fileName.s
    ELSE IF SplitPop(sourcePath) # <<>> THEN SplitPop(sourcePath)
    ELSE UnknownName

\* the for loop of computeVirtualPath over the sorted rules, from rule k on:
\* "threw" when evaluateGroup throws, "path" when a rule decides the path,
\* "none" when the loop ends without a path
RECURSIVE RuleLoop(_, _, _, _)
RECURSIVE RuleMatched(_, _, _, _, _)
\* a loop body that goes on to the next rule whenever the template fails
RuleMatchedContinuing(sorted, k, md, sourcePath, result) ==
    IF result.ok /\ result.s # <<>>
    THEN [kind |-> "path", path |-> sanitizePath(result.s)]
    ELSE RuleLoop(sorted, k + 1, md, sourcePath)

\* the body of the loop for a rule whose conditions hold, result being the
\* interpolation of its template
RuleMatched(sorted, k, md, sourcePath, result) ==
    IF result.ok /\ result.s # <<>>
    THEN [kind |-> "path", path |-> sanitizePath(result.s)]
    ELSE IF sorted[k].fallbackToUnsorted
         THEN [kind |-> "path", path |-> UnsortedDir \o FallbackFileName(md, sourcePath)]
         ELSE RuleLoop(sorted, k + 1, md, sourcePath)

RuleLoop(sorted, k, md, sourcePath) ==
    IF k > Len(sorted) THEN [kind |-> "none", path |-> <<>>]
    ELSE IF evaluateGroupThrows(sorted[k].conditions) THEN [kind |-> "threw", path |-> <<>>]
    ELSE IF evaluateGroup(sorted[k].conditions, md)
         THEN RuleMatched(sorted, k, md, sourcePath, interpolate(sorted[k].template, md))
         ELSE RuleLoop(sorted, k + 1, md, sourcePath)

\* the end of computeVirtualPath, when no rule decided: the default rule's
\* template (dflt is its interpolation, null without a default rule), then
\* the ultimate fallback
DefaultPath(md, sourcePath, dflt) ==
    IF dflt.ok /\ dflt.s # <<>>
    THEN sanitizePath(dflt.s)
    ELSE UnsortedDir \o FallbackFileName(md, sourcePath)

\* computeVirtualPath after its loop over the rules has ended as looped
AfterRuleLoop(rulesConfig, md, sourcePath, looped) ==
    IF looped.kind = "threw" THEN [threw |-> TRUE, path |-> <<>>]
    ELSE IF looped.kind = "path" THEN [threw |-> FALSE, path |-> looped.path]
    ELSE [threw |-> FALSE,
          path |-> DefaultPath(md, sourcePath,
                               IF rulesConfig.hasDefaultRule
                               THEN interpolate(rulesConfig.defaultRule.template, md)
                               ELSE NullResult)]

\* VirtualFileSystem.computeVirtualPath with a loaded rule config
computeVirtualPath(rulesConfig, md, sourcePath) ==
    AfterRuleLoop(rulesConfig, md, sourcePath,
                  RuleLoop(sortedRules(rulesConfig.rules), 1, md, sourcePath))

(***************************************************************************)
(* The virtual filesystem: node tree, indices and cached counters.         *)
(* The operators below take and return the record                          *)
(*   [nodes, sourcePathToVirtualPath, hashIdToVirtualPath, cachedStats]    *)
(* of the VirtualFileSystem fields they read and write.                    *)
(***************************************************************************)
EmptyMap == [x \in {} |-> <<>>]
MapSet(f, key, v) == [x \in DOMAIN f \cup {key} |-> IF x = key THEN v ELSE f[x]]
MapDel(f, key) == [x \in DOMAIN f \ {key} |-> f[x]]
Has(f, key) == key \in DOMAIN f

RootPath == <<Slash>>
\* the parent of the root: null
NoParent == <<>>
NoMetadata == flatPropertiesToMetadata(EmptyMap, "")

\* the mtime of a node: a time taken from the metadata, or the reading of
\* the clock (Date.now()) when the node was written; a directory has none
NoTime == [clock |-> FALSE, t |-> 0]
ClockTime == [clock |-> TRUE, t |-> 0]

\* new Date(metadata.mtime || Date.now())
NodeMtime(md) == IF Truthy(md.mtime) THEN [clock |-> FALSE, t |-> md.mtime.n] ELSE ClockTime

DirNode(name, parent) ==
    [type |-> "directory", name |-> name, parent |-> parent, sourcePath |-> <<>>,
     size |-> 0, mtime |-> NoTime, metadata |-> NoMetadata, children |-> {}]
FileNode(name, parent, md, size) ==
    [type |-> "file", name |-> name, parent |-> parent, sourcePath |-> md.sourcePath.s,
     size |-> size, mtime |-> NodeMtime(md), metadata |-> md, children |-> {}]

\* VirtualFileSystem.initRoot
initRoot ==
    [nodes |-> MapSet(EmptyMap, RootPath, DirNode(<<>>, NoParent)),
     sourcePathToVirtualPath |-> EmptyMap,
     hashIdToVirtualPath |-> EmptyMap,
     cachedStats |-> [fileCount |-> 0, directoryCount |-> 1, totalSize |-> 0]]

\* VirtualFileSystem.normalizePath (path.sep is '/')
normalizePath(p0) ==
    LET p == IF ~StartsWith(p0, <<Slash>>) THEN <<Slash>> \o p0 ELSE p0
    IN IF p # RootPath /\ EndsWith(p, <<Slash>>) THEN SubSeq(p, 1, Len(p) - 1) ELSE p

IsDir(V, p) == Has(V.nodes, p) /\ V.nodes[p].type = "directory"
IsFile(V, p) == Has(V.nodes, p) /\ V.nodes[p].type = "file"

\* parentNode.children.delete(name) when the parent is a directory node
DetachChild(nodes, parent, name) ==
    IF parent # NoParent /\ Has(nodes, parent) /\ nodes[parent].type = "directory"
    THEN [nodes EXCEPT ![parent].children = @ \ {name}]
    ELSE nodes

\* parentNode.children.add(name) when the parent is a directory node
AttachChild(nodes, parent, name) ==
    IF Has(nodes, parent) /\ nodes[parent].type = "directory"
    THEN [nodes EXCEPT ![parent].children = @ \cup {name}]
    ELSE nodes

\* VirtualFileSystem.cleanEmptyDirectories
RECURSIVE cleanEmptyDirectories(_, _)
cleanEmptyDirectories(V, dirPath) ==
    IF dirPath = NoParent \/ dirPath = RootPath THEN V
    ELSE IF ~IsDir(V, dirPath) THEN V
    ELSE LET node == V.nodes[dirPath]
         IN IF node.children = {}
            THEN cleanEmptyDirectories(
                   [V EXCEPT !.nodes = MapDel(DetachChild(V.nodes, node.parent, node.name),
                                              dirPath),
                             !.cachedStats.directoryCount = @ - 1],
                   node.parent)
            ELSE V

\* a removal that leaves the node in place
removeFileKeeping(V, virtualPath0) == V

\* VirtualFileSystem.removeFile
removeFile(V, virtualPath0) ==
    LET virtualPath == normalizePath(virtualPath0)
    IN IF ~IsFile(V, virtualPath) THEN V
       ELSE LET node == V.nodes[virtualPath]
                V1 == [V EXCEPT
                         !.nodes = MapDel(DetachChild(V.nodes, node.parent, node.name),
                                          virtualPath),
                         !.cachedStats.fileCount = @ - 1,
                         !.cachedStats.totalSize = @ - node.size,
                         !.sourcePathToVirtualPath =
                             IF node.sourcePath # <<>> THEN MapDel(@, node.sourcePath) ELSE @]
            IN cleanEmptyDirectories(V1, node.parent)

\* VirtualFileSystem.ensureDirectory
RECURSIVE ensureDirectory(_, _)
ensureDirectory(V, dirPath0) ==
    LET dirPath == normalizePath(dirPath0)
    IN IF dirPath = RootPath \/ Has(V.nodes, dirPath) THEN V
       ELSE LET parentPath == PathDirname(dirPath)
                V1 == ensureDirectory(V, parentPath)
                dirName == PathBasename(dirPath)
                withDir == MapSet(V1.nodes, dirPath, DirNode(dirName, parentPath))
            IN [V1 EXCEPT !.nodes = AttachChild(withDir, parentPath, dirName),
                          !.cachedStats.directoryCount = @ + 1]

\* metadata.size || 0
SizeOrZero(md) == IF md.size.k = "num" THEN md.size.n ELSE 0

\* VirtualFileSystem.addFileSync, first part: the counters forget a file already at the path
Uncounted(V, virtualPath) ==
    IF IsFile(V, virtualPath)
    THEN [V EXCEPT !.cachedStats.totalSize = @ - V.nodes[virtualPath].size,
                   !.cachedStats.fileCount = @ - 1]
    ELSE V

\* addFileSync, last part: the node is set, attached to its parent and
\* counted; V holds the fields after ensureDirectory(dirname)
WithFileNode(V, virtualPath, dirname, filename, md) ==
    [V EXCEPT !.nodes = AttachChild(MapSet(@, virtualPath,
                                           FileNode(filename, dirname, md, SizeOrZero(md))),
                                    dirname, filename),
              !.cachedStats.fileCount = @ + 1,
              !.cachedStats.totalSize = @ + SizeOrZero(md)]

\* addFileSync on the normalized path: the directory of the path is ensured
\* and the node set, whatever the path held before
AddFileAt(V, virtualPath, md) ==
    WithFileNode(ensureDirectory(Uncounted(V, virtualPath), PathDirname(virtualPath)),
                 virtualPath, PathDirname(virtualPath), PathBasename(virtualPath), md)

addFileSync(V, virtualPath0, md) == AddFileAt(V, normalizePath(virtualPath0), md)

\* the index updates that end onFileComplete, V being the fields after
\* addFileSync
Indexed(V, hashId, sourcePath, virtualPath) ==
    [V EXCEPT !.sourcePathToVirtualPath = MapSet(@, sourcePath, virtualPath),
              !.hashIdToVirtualPath = MapSet(@, hashId, virtualPath)]

\* onFileComplete from the point where computeVirtualPath has ended as
\* computed: the file is removed from its old path when that differs, added
\* at the new one and indexed
PlaceFile(V, hashId, fileMetadata, computed) ==
    IF computed.threw THEN [threw |-> TRUE, V |-> V]
    ELSE IF computed.path = <<>> THEN [threw |-> FALSE, V |-> V]
    ELSE [threw |-> FALSE,
          V |-> Indexed(addFileSync(IF /\ Has(V.hashIdToVirtualPath, hashId)
                                       /\ V.hashIdToVirtualPath[hashId] # computed.path
                                    THEN removeFile(V, V.hashIdToVirtualPath[hashId])
                                    ELSE V,
                                    computed.path, fileMetadata),
                        hashId, fileMetadata.sourcePath.s, computed.path)]

\* onFileComplete on the typed metadata
CompleteFile(V, rulesConfig, hashId, fileMetadata) ==
    IF fileMetadata.sourcePath.s = <<>> THEN [threw |-> FALSE, V |-> V]
    ELSE PlaceFile(V, hashId, fileMetadata,
                   computeVirtualPath(rulesConfig, fileMetadata,
                                      fileMetadata.sourcePath.s))

\* VirtualFileSystem.onFileComplete under the loaded rule config: the new
\* fields, and whether computeVirtualPath threw (nothing is written then)
onFileComplete(V, rulesConfig, hashId, props) ==
    CompleteFile(V, rulesConfig, hashId, flatPropertiesToMetadata(props, hashId))

\* a deletion that forgets the index entry and leaves the node
onFileDeleteIndexOnly(V, hashId) ==
    [V EXCEPT !.hashIdToVirtualPath = MapDel(@, hashId)]

\* VirtualFileSystem.onFileDelete
onFileDelete(V, hashId) ==
    IF Has(V.hashIdToVirtualPath, hashId)
    THEN LET V1 == removeFile(V, V.hashIdToVirtualPath[hashId])
         IN [V1 EXCEPT !.hashIdToVirtualPath = MapDel(@, hashId)]
    ELSE V

\* VirtualFileSystem.updateStats: the counters recomputed from the nodes
RECURSIVE SumSizes(_, _)
SumSizes(nodes, paths) ==
    IF paths = {} THEN 0
    ELSE LET p == CHOOSE x \in paths : TRUE
         IN nodes[p].size + SumSizes(nodes, paths \ {p})

updateStats(V) ==
    LET files == {p \in DOMAIN V.nodes : V.nodes[p].type = "file"}
    IN [V EXCEPT !.cachedStats =
          [fileCount |-> Cardinality(files),
           directoryCount |-> Cardinality(DOMAIN V.nodes \ files),
           totalSize |-> SumSizes(V.nodes, files)]]

\* readers of the query API
getattrFound(V, p) == Has(V.nodes, normalizePath(p))
exists(V, p) == Has(V.nodes, normalizePath(p))
readdirHas(V, dir, name) == IsDir(V,
normalizePath(dir)) /\ name \in V.nodes[normalizePath(dir)].children

(***************************************************************************)
(* Property relevance (RulesPropertyExtractor).  Property names are atomic *)
(* strings; PropertySegments gives the '.'-separated parts of the          *)
(* normalized name.                                                        *)
(***************************************************************************)
CORE_PROPERTIES ==
    {"filePath", "size", "fileSize", "mtime", "ctime", "fileName", "extension"}

\* path.replace(/\//g, '.')
normalizePropertyPath(p) == IF p = "titles/eng" THEN "titles.eng" ELSE p

PropertySegments(p) ==
    IF normalizePropertyPath(p) = "titles.eng" THEN <<"titles", "eng">> ELSE <<p>>

\* a.startsWith(b + '.') on normalized names
StartsWithDot(a, b) ==
    LET sa == PropertySegments(a)
        sb == PropertySegments(b)
    IN Len(sb) < Len(sa) /\ SubSeq(sa, 1, Len(sb)) = sb

extractRuleProperties(rule) ==
    extractVariables(rule.template) \cup extractConditionFields(rule.conditions)

isVfsRelevantProperty(property, vfsProperties) ==
    LET normalized == normalizePropertyPath(property)
    IN \/ normalized \in vfsProperties
       \/ \E vfsProp \in vfsProperties :
            \/ StartsWithDot(normalized, normalizePropertyPath(vfsProp))
            \/ StartsWithDot(normalizePropertyPath(vfsProp), normalized)

extractVfsProperties(config) ==
    CORE_PROPERTIES
    \cup UNION {{normalizePropertyPath(p) : p \in extractRuleProperties(config.rules[i])} :
                  i \in {j \in 1..Len(config.rules) : config.rules[j].enabled}}
    \cup (IF config.hasDefaultRule
          THEN {normalizePropertyPath(p) : p \in extractRuleProperties(config.defaultRule)}
          ELSE {})

(***************************************************************************)
(* Validation of a submitted rule config (handleUpdateRules).  Templates   *)
(* are token sequences: '{}' is the variable token with the empty field.   *)
(***************************************************************************)
ValidConditionTypes == {"EXISTS", "NOT_EXISTS", "EQUALS", "NOT_EQUALS", "CONTAINS", "MATCHES"}
RequiresValue == {"EQUALS", "NOT_EQUALS", "CONTAINS", "MATCHES"}

\* ConditionEvaluator.validate: TRUE when no error is reported
RECURSIVE validateConditions(_)
validateConditions(c) ==
    IF isConditionGroup(c)
    THEN /\ c.operator \in {"AND", "OR"}
         /\ \A i \in 1..Len(c.conditions) : validateConditions(c.conditions[i])
    ELSE /\ c.type \in ValidConditionTypes
         /\ c.field # ""
         /\ (c.type \in RequiresValue => ~IsNullish(c.value))

\* TemplateEngine.validate: TRUE when no error is reported; every token that
\* is no literal needs a field, and so do those of a conditional's inner
\* template
RECURSIVE validateTemplate(_)
validateTemplate(tokens) ==
    \A i \in 1..Len(tokens) :
        /\ tokens[i].type # "literal" => tokens[i].field # ""
        /\ tokens[i].type = "conditional" => validateTemplate(tokens[i].inner)

\* the validation loop of handleUpdateRules: the template and the conditions
\* of every entry of config.rules; the default rule is not looked at
rulesValid(config) ==
    \A i \in 1..Len(config.rules) :
        /\ validateTemplate(config.rules[i].template)
        /\ validateConditions(config.rules[i].conditions)

(***************************************************************************)
(* The rule configs the model draws from                                   *)
(***************************************************************************)
\* DefaultRules fallbackRule: 'Unsorted/{fileName}'
fallbackRule ==
    Rule("fallback", TRUE, 0, Grp("AND", <<>>), <<Lit(UnsortedDir), Var("fileName")>>, FALSE)

Config(rules) == [rules |-> rules, hasDefaultRule |-> TRUE, defaultRule |-> fallbackRule]

\* one rule on the title: M/{title}
CfgTitle ==
    Config(<<Rule("movies", TRUE, 80, Grp("AND", <<Cnd("EXISTS", "title", Undef)>>),
                  <<Lit(<<"M", Slash>>), Var("title")>>, FALSE)>>)

\* one rule on core properties only: A/{fileName}
CfgFlat ==
    Config(<<Rule("flat", TRUE, 50, Grp("AND", <<>>),
                  <<Lit(<<"A", Slash>>), Var("fileName")>>, FALSE)>>)

\* a rule for files without title, and a lower-priority rule whose conditions
\* are a single Condition instead of a group
CfgBare ==
    Config(<<Rule("untitled", TRUE, 90, Grp("AND", <<Cnd("NOT_EXISTS", "title", Undef)>>),
                  <<Lit(<<"N", Slash>>), Var("fileName")>>, FALSE),
             Rule("titled", TRUE, 10, Cnd("EXISTS", "title", Undef),
                  <<Lit(<<"M", Slash>>), Var("title")>>, FALSE)>>)

\* a rule with an unknown condition type: rejected by the validation
CfgInvalid ==
    Config(<<Rule("broken", TRUE, 50, Grp("AND", <<Cnd("SOMETIMES", "title", Undef)>>),
                  <<Lit(<<"A", Slash>>), Var("fileName")>>, FALSE)>>)

\* the rule of CfgFlat, and a default rule whose template 'U/{}' has a
\* variable without a field
CfgBadDefault ==
    [rules |-> CfgFlat.rules,
     hasDefaultRule |-> TRUE,
     defaultRule |-> Rule("default", TRUE, 0, Grp("AND", <<>>),
                          <<Lit(<<"U", Slash>>), Var("")>>, FALSE)]

\* what the rules file may hold at start, and what a client may PUT
StoredConfigs == {CfgTitle, CfgFlat, CfgBare}
SubmittedConfigs == {CfgTitle, CfgFlat, CfgInvalid, CfgBadDefault}

(***************************************************************************)
(* What the writer of the store may write                                  *)
(***************************************************************************)
FileIds == {"f1", "f2"}
\* each file has its own source path; both have the same base name
FilePathOf(f) == IF f = "f1" THEN <<"a">> ELSE <<"d", Slash, "a">>
TitleValues == {<<"x">>}
WrittenProps(f) == IF f = "f1" THEN {"filePath", "title"} ELSE {"filePath"}
ValuesOf(f, p) == IF p = "filePath" THEN {FilePathOf(f)} ELSE TitleValues

(***************************************************************************)
(* State                                                                   *)
(***************************************************************************)
VARIABLES
    \* the store (Redis): the meta:events stream, the flat keys, the connection
    stream, store, isConnected, disconnects,
    \* StreamingStateBuilder
    state, vfsRelevantProps, vfsCallback, stats,
    \* VirtualFileSystem
    nodes, sourcePathToVirtualPath, hashIdToVirtualPath, cachedStats,
    rulesConfig, stateBuilder,
    \* ConfigStorage: the config whose JSON text the rules file on disk holds,
    \* whether the file holds only a part of that text, the backup files (the
    \* time in the name of each, mapped to the config it holds), the clock
    \* (Date.now()), and the process that saves (SpecStorage)
    rulesFile, partial, backups, now, saver,
    \* main(): the bootstrap replay followed by the live consumer
    pipeline,
    \* VirtualFileSystem.refresh() in progress
    refreshTask,
    \* a second refresh() call, made while the first has not returned
    otherRefresh,
    \* RedisClient's stream consumer: streamConsumerRunning, streamConsumerAbort
    \* and the consumer loops that have not ended
    consumer,
    \* KVManager and the objects main()'s ready callback has built
    kv,
    \* APIServer: requests served and the last reply of handleUpdateRules
    api,
    \* history: entries passed to the pipeline's handler, entries whose handler
    \* returned normally, the id the bootstrap replay returned (-1 before it
    \* returns), and the first entry the live consumer passed to its handler
    \* (0 before there is one)
    handled, succeeded, bootReturned, liveFirst

vars ==
    <<stream, store, isConnected, disconnects, state, vfsRelevantProps, vfsCallback,
      stats, nodes, sourcePathToVirtualPath, hashIdToVirtualPath, cachedStats,
      rulesConfig, stateBuilder, rulesFile, partial, backups, now, saver,
      pipeline, refreshTask, otherRefresh, consumer, kv, api,
      handled, succeeded, bootReturned, liveFirst>>

storeVars == <<stream, store, isConnected, disconnects>>
builderVars == <<state, vfsRelevantProps, vfsCallback, stats>>
vfsVars == <<nodes, sourcePathToVirtualPath, hashIdToVirtualPath, cachedStats>>
historyVars == <<handled, succeeded, bootReturned, liveFirst>>
storageVars == <<rulesFile, partial, backups, now, saver>>

\* the VirtualFileSystem fields the tree operators work on
VFS ==
    [nodes |-> nodes, sourcePathToVirtualPath |-> sourcePathToVirtualPath,
     hashIdToVirtualPath |-> hashIdToVirtualPath, cachedStats |-> cachedStats]

SetVFS(V) ==
    /\ nodes' = V.nodes
    /\ sourcePathToVirtualPath' = V.sourcePathToVirtualPath
    /\ hashIdToVirtualPath' = V.hashIdToVirtualPath
    /\ cachedStats' = V.cachedStats

\* the initial value of StreamingStateBuilder.stats, also set by clear()
ZeroStats ==
    [eventsProcessed |-> 0, propertiesFetched |-> 0, propertiesSkipped |-> 0,
     filesComplete |-> 0, lastEventId |-> 0]

(***************************************************************************)
(* StreamingStateBuilder.  The operators work on the record                *)
(*   [state, stats, V, seen, threw]                                        *)
(* of what a handler call reads and writes: the builder's state and stats, *)
(* the VirtualFileSystem fields, the seenHashIds of the refresh whose      *)
(* tracking callback is installed, and whether the call threw.             *)
(***************************************************************************)
Bundle ==
    [state |-> state, stats |-> stats, V |-> VFS,
     seen |-> refreshTask.seenHashIds, seen2 |-> otherRefresh.seenHashIds,
     threw |-> FALSE]

\* StreamingStateBuilder.isFileComplete
isFileComplete(st, hashId) == Has(st, hashId) /\ "filePath" \in DOMAIN st[hashId]

\* StreamingStateBuilder.updateProperty
updateProperty(st, hashId, property, value) ==
    MapSet(st, hashId,
           MapSet(IF Has(st, hashId) THEN st[hashId] ELSE EmptyMap, property, value))

\* this.vfsCallback.onFileComplete(hashId, getFileMetadata(hashId)): the
\* tracking callback of refresh() records the hashId, then calls the
\* VirtualFileSystem's onFileComplete
Completed(B, r) == [B EXCEPT !.V = r.V, !.threw = r.threw]

callbackOnFileComplete(B, cb, cfg, hashId) ==
    Completed(IF cb = "tracking" THEN [B EXCEPT !.seen = @ \cup {hashId}]
              ELSE IF cb = "tracking2" THEN [B EXCEPT !.seen2 = @ \cup {hashId}]
              ELSE B,
              onFileComplete(B.V, cfg, hashId, B.state[hashId]))

\* RedisClient.getProperty: null when not connected or when the key is absent;
\* [found |-> FALSE] stands for null
getProperty(hashId, property) ==
    IF isConnected /\ property \in DOMAIN store[hashId]
    THEN [found |-> TRUE, v |-> store[hashId][property]]
    ELSE [found |-> FALSE, v |-> <<>>]

\* StreamingStateBuilder.handlePropertySet from the point where the GET has
\* returned
\* the property is stored; a file that has just become complete is counted;
\* a complete file goes to the callback, whether it has just become complete
\* or was so before
PropertyStored(B, wasComplete, cb, cfg, hashId) ==
    IF isFileComplete(B.state, hashId)
    THEN callbackOnFileComplete(IF wasComplete THEN B
                                ELSE [B EXCEPT !.stats.filesComplete = @ + 1],
                                cb, cfg, hashId)
    ELSE B

handlePropertySetFetched(B, cb, cfg, hashId, property, value) ==
    IF ~value.found THEN B
    ELSE PropertyStored([B EXCEPT !.stats.propertiesFetched = @ + 1,
                                  !.state = updateProperty(@, hashId, property, value.v)],
                        isFileComplete(B.state, hashId), cb, cfg, hashId)

\* StreamingStateBuilder.handlePropertyDelete; onPropertyDelete only logs
handlePropertyDelete(B, hashId, property) ==
    IF ~Has(B.state, hashId) THEN B
    ELSE LET fileState == MapDel(B.state[hashId], property)
         IN IF property = "filePath" \/ DOMAIN fileState = {}
            THEN [B EXCEPT !.state = MapDel(@, hashId), !.V = onFileDelete(@, hashId)]
            ELSE [B EXCEPT !.state = MapSet(@, hashId, fileState)]

\* a processEvent that skips nothing: every set event goes on to its GET
processEventFetchingAll(B, relevantProps, id, message) ==
    LET B1 == [B EXCEPT !.stats.eventsProcessed = @ + 1, !.stats.lastEventId = id]
    IN IF message.type = "del"
       THEN [B |-> handlePropertyDelete(B1, message.hashId, message.property),
             awaiting |-> FALSE]
       ELSE [B |-> B1, awaiting |-> TRUE]

\* StreamingStateBuilder.processEvent / processMetaEvent up to the point
\* where the GET of handlePropertySet is issued; awaiting tells whether the
\* call is now waiting for that GET
processEvent(B, relevantProps, id, message) ==
    LET B1 == [B EXCEPT !.stats.eventsProcessed = @ + 1, !.stats.lastEventId = id]
    IN IF message.type = "del"
       THEN [B |-> handlePropertyDelete(B1, message.hashId, message.property),
             awaiting |-> FALSE]
       ELSE IF ~isVfsRelevantProperty(message.property, relevantProps)
            THEN [B |-> [B1 EXCEPT !.stats.propertiesSkipped = @ + 1], awaiting |-> FALSE]
            ELSE [B |-> B1, awaiting |-> TRUE]

\* the fields of the bundle written back
SetBundle(B) ==
    /\ state' = B.state
    /\ stats' = B.stats
    /\ SetVFS(B.V)

(***************************************************************************)
(* RedisClient stream reads                                                *)
(***************************************************************************)
\* a read that loses the first entry after fromId
readStreamFromSkipping(fromId, count) ==
    IF ~isConnected THEN <<>>
    ELSE LET last == IF Len(stream) < fromId + 1 + count THEN Len(stream)
                     ELSE fromId + 1 + count
         IN [i \in 1..(last - fromId - 1) |-> fromId + 1 + i]

\* RedisClient.parseStreamEntry: null (FALSE) for an entry without a type
parseStreamEntry(entry) == entry.type # ""

\* the ids, in order, of those of the entries ids that parseStreamEntry
\* turns into a message
RECURSIVE Parsed(_)
Parsed(ids) ==
    IF ids = <<>> THEN <<>>
    ELSE (IF parseStreamEntry(stream[Head(ids)]) THEN <<Head(ids)>> ELSE <<>>)
         \o Parsed(Tail(ids))

\* XREAD COUNT count STREAMS meta:events fromId: the ids of at most count
\* entries after fromId
XRead(fromId, count) ==
    LET last == IF Len(stream) < fromId + count THEN Len(stream) ELSE fromId + count
    IN [i \in 1..(last - fromId) |-> fromId + i]

\* RedisClient.readStreamFrom: the ids of the messages parsed from at most
\* count entries after fromId; nothing when the client is not connected
readStreamFrom(fromId, count) ==
    IF ~isConnected THEN <<>> ELSE Parsed(XRead(fromId, count))

\* handler calls in a behaviour: the stats counters stay below this
MaxEvents == 6

(***************************************************************************)
(* Initial state: the state after main() has built the VirtualFileSystem   *)
(* (start() loads the rules file) and the StreamingStateBuilder, before    *)
(* the first read of the bootstrap replay.                                 *)
(***************************************************************************)
IdleRefresh ==
    [pc |-> "idle", lastId |-> 0, entries |-> <<>>, batchLen |-> 0,
     seenHashIds |-> {}, originalCallback |-> "vfs", caller |-> "none"]

\* a RedisClient as constructed: no consumer loop, no AbortController (0);
\* aborted: the controllers abort() was called on; loops: the loops that
\* have not ended, by the number of the call that started them
IdleConsumer ==
    [running |-> FALSE, abort |-> 0, aborted |-> {}, loops |-> EmptyMap, calls |-> 0]

\* main() before kvManager.start(): no leader known, no RedisClient (0), none
\* constructed; built: one record per run of main()'s onReady callback, with
\* the client the run took, how far the run's pipeline is, and the number of
\* stream entries applied to the VirtualFileSystem the run built; listening:
\* the run whose APIServer holds the port (0: none)
InitKV == [leader |-> "none", client |-> 0, clients |-> 0, built |-> <<>>, listening |-> 0]

\* everything but the stream.  configs: what the rules file may hold;
\* attached: whether the VirtualFileSystem was given the state builder
InitRest(configs, attached) ==
    /\ store = [f \in FileIds |-> EmptyMap]
    /\ isConnected = TRUE
    /\ disconnects = 0
    /\ rulesFile \in configs
    /\ partial = FALSE
    /\ backups = EmptyMap
    /\ now = 0
    /\ saver = [pc |-> "idle", saves |-> 0]
    /\ rulesConfig = rulesFile
    /\ state = EmptyMap
    /\ vfsRelevantProps = extractVfsProperties(rulesFile)
    /\ vfsCallback = "vfs"
    /\ stats = ZeroStats
    /\ nodes = initRoot.nodes
    /\ sourcePathToVirtualPath = initRoot.sourcePathToVirtualPath
    /\ hashIdToVirtualPath = initRoot.hashIdToVirtualPath
    /\ cachedStats = initRoot.cachedStats
    /\ stateBuilder = attached
    /\ pipeline = [pc |-> "boot_read", lastId |-> 0, entries |-> <<>>, batchLen |-> 0]
    /\ refreshTask = IdleRefresh
    /\ otherRefresh = IdleRefresh
    /\ consumer = IdleConsumer
    /\ kv = InitKV
    /\ api = [saves |-> 0, refreshes |-> 0, reply |-> "none"]
    /\ handled = {}
    /\ succeeded = {}
    /\ bootReturned = -1
    /\ liveFirst = 0

\* the stream is empty at start
InitFrom(configs, attached) ==
    /\ stream = <<>>
    /\ InitRest(configs, attached)

InitWith(attached) == InitFrom(StoredConfigs, attached)

\* main() as written: the VirtualFileSystem is never given the state builder
Init == InitWith(FALSE)

\* a setup that also calls VirtualFileSystem.setStreamingStateBuilder with
\* the state builder it has built, as refresh() asks for
InitAttached == InitWith(TRUE)

(***************************************************************************)
(* The writer (meta-sort) and the connection to the store                  *)
(***************************************************************************)
\* SET file:<f>/<p> followed by XADD meta:events type=set
WriterSet(f, p, v) ==
    /\ Len(stream) < MaxStream
    /\ store' = [store EXCEPT ![f] = MapSet(@, p, v)]
    /\ stream' = Append(stream, [type |-> "set", hashId |-> f, property |-> p])
    /\ UNCHANGED <<isConnected, disconnects, builderVars, vfsVars, rulesConfig,
                   stateBuilder, consumer, kv, storageVars, pipeline, refreshTask,
                   otherRefresh, api, historyVars>>

\* DEL file:<f>/<p> followed by XADD meta:events type=del
WriterDel(f, p) ==
    /\ Len(stream) < MaxStream
    /\ p \in DOMAIN store[f]
    /\ store' = [store EXCEPT ![f] = MapDel(@, p)]
    /\ stream' = Append(stream, [type |-> "del", hashId |-> f, property |-> p])
    /\ UNCHANGED <<isConnected, disconnects, builderVars, vfsVars, rulesConfig,
                   stateBuilder, consumer, kv, storageVars, pipeline, refreshTask,
                   otherRefresh, api, historyVars>>

\* the client's 'error' / 'close' events
Disconnect ==
    /\ isConnected
    /\ disconnects < MaxDisconnect
    /\ isConnected' = FALSE
    /\ disconnects' = disconnects + 1
    /\ UNCHANGED <<stream, store, builderVars, vfsVars, rulesConfig, stateBuilder, consumer, kv,
                   storageVars, pipeline, refreshTask, otherRefresh, api, historyVars>>

\* the client's 'connect' event
Reconnect ==
    /\ ~isConnected
    /\ isConnected' = TRUE
    /\ UNCHANGED <<stream, store, disconnects, builderVars, vfsVars, rulesConfig,
                   stateBuilder, consumer, kv, storageVars, pipeline, refreshTask,
                   otherRefresh, api, historyVars>>

(***************************************************************************)
(* The consumers.  A consumer (main()'s pipeline, or the replay of a       *)
(* refresh) is a loop of stream reads, each followed by one handler call   *)
(* per entry.  Its steps are the completions of its I/O: the code that     *)
(* follows a completed XREAD or GET runs, as one step, until the consumer  *)
(* waits for its next XREAD or GET.  What a read or a GET returns is what  *)
(* the store holds when it completes (nothing when the client is not       *)
(* connected then).                                                        *)
(***************************************************************************)
\* a live consumer started one entry too far
LiveStartIdSkipping(lastId) == lastId + 1

\* the id main() passes to startSimpleStreamConsumer: the one replayStream
\* returned
LiveStartId(lastId) == lastId

\* the for loop over a batch from its head on, until a handler call waits
\* for its GET or the batch is exhausted; a call that ends without a GET has
\* returned normally and moves the cursor.  r is the record
\*   [task, B, called, returned, waiting]
\* of the consumer, the bundle, the ids whose handler was called and those
\* whose handler returned normally in this step, and whether the consumer
\* now waits for a GET.
RECURSIVE RunBatch(_)
RECURSIVE HandlerCalled(_, _, _)
\* the handler was called on entry id and ended, or waits, as e
HandlerCalled(r, id, e) ==
    IF e.awaiting
    THEN [r EXCEPT !.B = e.B, !.called = @ \cup {id}, !.waiting = TRUE]
    ELSE RunBatch([r EXCEPT !.B = e.B,
                            !.called = @ \cup {id},
                            !.returned = @ \cup {id},
                            !.task.lastId = id,
                            !.task.entries = Tail(@)])

RunBatch(r) ==
    IF r.task.entries = <<>> THEN r
    ELSE HandlerCalled(r, Head(r.task.entries),
                       processEvent(r.B, vfsRelevantProps, Head(r.task.entries),
                                    stream[Head(r.task.entries)]))

\* a completed readStreamFrom that returned the entries ids
AfterRead(task, ids) ==
    RunBatch([task |-> [task EXCEPT !.entries = ids, !.batchLen = Len(ids)],
              B |-> Bundle, called |-> {}, returned |-> {}, waiting |-> FALSE])

\* a completed GET for the head of the batch: the handler call ends, the
\* cursor moves only when it returned normally, the rest of the batch follows
HandlerEnded(task, id, B) ==
    RunBatch([task |-> [task EXCEPT !.lastId = IF B.threw THEN @ ELSE id,
                                    !.entries = Tail(@)],
              B |-> [B EXCEPT !.threw = FALSE],
              called |-> {},
              returned |-> IF B.threw THEN {} ELSE {id},
              waiting |-> FALSE])

\* the handler call on message ends with the value the GET returned
FetchedFor(message, cb, cfg) ==
    handlePropertySetFetched(Bundle, cb, cfg, message.hashId, message.property,
                             getProperty(message.hashId, message.property))

AfterGet(task, cb, cfg) ==
    HandlerEnded(task, Head(task.entries), FetchedFor(stream[Head(task.entries)], cb, cfg))

(***************************************************************************)
(* main(): bootstrap replay, then the live consumer                        *)
(***************************************************************************)
InBoot == pipeline.pc \in {"boot_read", "boot_got"}
\* live_retry: a read has failed and the loop is at its next read
InLive == pipeline.pc \in {"live_read", "live_retry", "live_got"}

\* replayStream returns lastId and main() starts the live consumer from it
StartLive(task) ==
    /\ bootReturned' = task.lastId
    /\ pipeline' = [task EXCEPT !.pc = "live_read", !.lastId = LiveStartId(task.lastId),
                                !.entries = <<>>, !.batchLen = 0]

\* the pipeline after the code that follows an I/O completion: it waits for
\* a GET, or for its next read; the bootstrap ends on a batch shorter than
\* batchSize (an empty one included)
PipelineNext(r) ==
    /\ SetBundle(r.B)
    /\ refreshTask' = [refreshTask EXCEPT !.seenHashIds = r.B.seen]
    /\ otherRefresh' = [otherRefresh EXCEPT !.seenHashIds = r.B.seen2]
    /\ handled' = handled \cup r.called
    /\ succeeded' = succeeded \cup r.returned
    /\ liveFirst' = IF InLive /\ liveFirst = 0 /\ r.called # {}
                    THEN SetMin(r.called) ELSE liveFirst
    /\ IF r.waiting
       THEN /\ pipeline' = [r.task EXCEPT !.pc = IF InBoot THEN "boot_got" ELSE "live_got"]
            /\ bootReturned' = bootReturned
       ELSE IF InBoot /\ r.task.batchLen < BatchSize
            THEN StartLive(r.task)
            ELSE /\ pipeline' =
                      [r.task EXCEPT !.pc = IF InBoot THEN "boot_read" ELSE "live_read"]
                 /\ bootReturned' = bootReturned

\* replayStream: a readStreamFrom of the bootstrap completes
BootRead ==
    /\ pipeline.pc = "boot_read"
    /\ stats.eventsProcessed < MaxEvents
    /\ PipelineNext(AfterRead(pipeline, readStreamFrom(pipeline.lastId, BatchSize)))
    /\ UNCHANGED <<storeVars, vfsRelevantProps, vfsCallback, rulesConfig, stateBuilder,
                   consumer, kv,
                   storageVars, api>>

\* startSimpleStreamConsumer: a readStreamFrom that returns entries completes
LiveRead ==
    /\ pipeline.pc \in {"live_read", "live_retry"}
    /\ stats.eventsProcessed < MaxEvents
    /\ Len(readStreamFrom(pipeline.lastId, LiveCount)) > 0
    /\ PipelineNext(AfterRead(pipeline, readStreamFrom(pipeline.lastId, LiveCount)))
    /\ UNCHANGED <<storeVars, vfsRelevantProps, vfsCallback, rulesConfig, stateBuilder,
                   consumer, kv,
                   storageVars, api>>

\* the live consumer after a readStreamFrom that failed: readStreamFrom has
\* returned no entries (it returns at once when the client is not connected,
\* and catches the error of a failed XREAD), the for loop has nothing to do,
\* the catch block with its timer is not entered, and the while loop is at
\* its next readStreamFrom with the same lastId
AfterFailedRead(task) == [task EXCEPT !.pc = "live_retry"]

\* startSimpleStreamConsumer: a readStreamFrom fails, the client being
\* disconnected
LiveReadFailed ==
    /\ pipeline.pc = "live_read"
    /\ ~isConnected
    /\ pipeline' = AfterFailedRead(pipeline)
    /\ UNCHANGED <<storeVars, builderVars, vfsVars, rulesConfig, stateBuilder, consumer,
                   kv, storageVars,
                   refreshTask, otherRefresh, api, historyVars>>

\* handleStreamingEvent: the GET of handlePropertySet completes
PipelineFetched ==
    /\ pipeline.pc \in {"boot_got", "live_got"}
    /\ PipelineNext(AfterGet(pipeline, vfsCallback, rulesConfig))
    /\ UNCHANGED <<storeVars, vfsRelevantProps, vfsCallback, rulesConfig, stateBuilder,
                   consumer, kv,
                   storageVars, api>>

(***************************************************************************)
(* VirtualFileSystem.refresh()                                             *)
(***************************************************************************)
\* StreamingStateBuilder.getVFSCallback
getVFSCallback == vfsCallback

\* StreamingStateBuilder.getVfsRelevantProperties
getVfsRelevantProperties == vfsRelevantProps

\* a refresh that starts from an empty tree
refreshWipes(V) == initRoot

\* the nodes, indices and counters refresh() starts from: those it finds
\* (no initRoot() call)
refreshKeeps(V) == V

\* refresh() up to the first read of its replay: the rules are loaded from
\* the rules file (which holds loaded); without a state builder the call
\* returns; with one, the tracking callback is installed and the builder
\* cleared
refreshBegin(loaded, caller) ==
    /\ rulesConfig' = loaded
    /\ SetVFS(refreshKeeps(VFS))
    /\ IF ~stateBuilder
       THEN UNCHANGED <<refreshTask, otherRefresh, state, stats, vfsCallback>>
       ELSE /\ refreshTask' = [IdleRefresh EXCEPT !.pc = "read",
                                                  !.originalCallback = getVFSCallback,
                                                  !.caller = caller]
            /\ vfsCallback' = "tracking"
            /\ state' = EmptyMap
            /\ stats' = ZeroStats
            /\ UNCHANGED otherRefresh

\* the removal loop of refresh(): every indexed hashId that was not seen
RECURSIVE RemoveUnseen(_, _)
RemoveUnseen(V, seen) ==
    LET toRemove == DOMAIN V.hashIdToVirtualPath \ seen
    IN IF toRemove = {} THEN V
       ELSE LET hashId == CHOOSE h \in toRemove : TRUE
                V1 == removeFile(V, V.hashIdToVirtualPath[hashId])
            IN RemoveUnseen([V1 EXCEPT !.hashIdToVirtualPath = MapDel(@, hashId)], seen)

\* the end of refresh(): the callback restored, the unseen files removed,
\* the counters recomputed.  A PUT that awaited the refresh then replies.
RefreshEnd(task, B) ==
    /\ state' = B.state
    /\ stats' = B.stats
    /\ SetVFS(updateStats(RemoveUnseen(B.V, B.seen)))
    /\ vfsCallback' = task.originalCallback
    /\ refreshTask' = IdleRefresh
    /\ otherRefresh' = [otherRefresh EXCEPT !.seenHashIds = B.seen2]
    /\ api' = [api EXCEPT !.reply = IF task.caller = "put" THEN "success" ELSE @]

\* the refresh after the code that follows an I/O completion of its replay:
\* it waits for a GET, or for its next read; the replay returns on a batch
\* shorter than batchSize, and refresh() then either waits for getIndexCount
\* (nothing seen) or ends
RefreshNext(r) ==
    IF r.waiting \/ r.task.batchLen >= BatchSize \/ r.B.seen = {}
    THEN /\ SetBundle(r.B)
         /\ refreshTask' =
              [r.task EXCEPT !.seenHashIds = r.B.seen,
                             !.pc = IF r.waiting THEN "got"
                                    ELSE IF r.task.batchLen >= BatchSize THEN "read"
                                    ELSE "scan"]
         /\ otherRefresh' = [otherRefresh EXCEPT !.seenHashIds = r.B.seen2]
         /\ UNCHANGED <<vfsCallback, api>>
    ELSE RefreshEnd(r.task, r.B)

\* replayStream of the refresh: a readStreamFrom completes
RefreshRead ==
    /\ refreshTask.pc = "read"
    /\ stats.eventsProcessed < MaxEvents
    /\ RefreshNext(AfterRead(refreshTask, readStreamFrom(refreshTask.lastId, BatchSize)))
    /\ UNCHANGED <<storeVars, vfsRelevantProps, rulesConfig, stateBuilder, consumer, kv,
                   storageVars,
                   pipeline, historyVars>>

\* the replay handler of the refresh: the GET of handlePropertySet completes
RefreshFetched ==
    /\ refreshTask.pc = "got"
    /\ RefreshNext(AfterGet(refreshTask, vfsCallback, rulesConfig))
    /\ UNCHANGED <<storeVars, vfsRelevantProps, rulesConfig, stateBuilder, consumer, kv,
                   storageVars,
                   pipeline, historyVars>>

\* RedisClient.getIndexCount: the size of the index of file ids
getIndexCount ==
    IF isConnected THEN Cardinality({f \in FileIds : DOMAIN store[f] # {}}) ELSE 0

\* RedisClient.scanFlatKeysForFiles: the files of the store with their
\* relevant properties
scanFlatKeysForFiles(props) ==
    IF isConnected
    THEN [f \in {g \in FileIds : "filePath" \in DOMAIN store[g]} |->
            [p \in {q \in DOMAIN store[f] : isVfsRelevantProperty(q, props)} |->
               store[f][p]]]
    ELSE EmptyMap

\* the orders in which a map over the given keys may be iterated
Orders(keys) ==
    {o \in [1..Cardinality(keys) -> keys] : \A i, j \in DOMAIN o : i # j => o[i] # o[j]}

\* the fallback loop of refresh(): onFileComplete on every scanned file
RECURSIVE ScanLoop(_, _, _, _, _)
ScanLoop(acc, files, order, k, cfg) ==
    IF k > Len(order) \/ acc.threw THEN acc
    ELSE ScanLoop(Completed([acc EXCEPT !.seen = @ \cup {order[k]}],
                            onFileComplete(acc.V, cfg, order[k], files[order[k]])),
                  files, order, k + 1, cfg)

\* refresh() when its replay saw no file: getIndexCount and, when the index
\* is not empty, scanFlatKeysForFiles complete; every scanned file goes
\* through onFileComplete; an exception there ends refresh() in its catch
\* block, with the tracking callback still installed
ScanEnd(fb) ==
    IF fb.threw
    THEN /\ SetVFS(fb.V)
         /\ refreshTask' = IdleRefresh
         /\ otherRefresh' = [otherRefresh EXCEPT !.seenHashIds = fb.seen2]
         /\ api' = [api EXCEPT !.reply = IF refreshTask.caller = "put"
                                         THEN "success" ELSE @]
         /\ UNCHANGED <<state, stats, vfsCallback>>
    ELSE RefreshEnd(refreshTask, fb)

\* the files of the fallback scan, none when the index is empty
ScannedFiles ==
    IF getIndexCount > 0 THEN scanFlatKeysForFiles(getVfsRelevantProperties) ELSE EmptyMap

RefreshScan ==
    /\ refreshTask.pc = "scan"
    /\ \E order \in Orders(DOMAIN ScannedFiles) :
         ScanEnd(ScanLoop(Bundle, ScannedFiles, order, 1, rulesConfig))
    /\ UNCHANGED <<storeVars, vfsRelevantProps, rulesConfig, stateBuilder, consumer, kv,
                   storageVars,
                   pipeline, historyVars>>

(***************************************************************************)
(* ConfigStorage: the rules file and its backups.  The rules file exists   *)
(* from the first getRulesConfig() on, which start() makes.                *)
(***************************************************************************)
\* backups kept by cleanupBackups
KeepCount == 5

\* ConfigStorage.cleanupBackups: the backups sorted by the time in their
\* name, newest first; those from position keepCount on are unlinked
cleanupBackups(bk) ==
    [t \in {t \in DOMAIN bk : Cardinality({u \in DOMAIN bk : u > t}) < KeepCount} |-> bk[t]]

\* the first part of saveRulesConfig: the current file is copied to
\* renaming-rules.backup.<Date.now()>.json (a file of that name is
\* overwritten), then the backups are cleaned up
backupCurrent(bk, time, current) == cleanupBackups(MapSet(bk, time, current))

(***************************************************************************)
(* APIServer.  main() starts the API server after it has started the live  *)
(* consumer, so requests are served only then.                             *)
(***************************************************************************)
\* PUT /api/fuse/rules (handleUpdateRules): 400 when the validation reports
\* an error; otherwise saveRulesConfig, then refresh(); the reply
\* {success: true, refreshed: true} is sent when refresh() has returned
HandleUpdateRules(config) ==
    /\ InLive
    /\ api.saves < MaxSaves
    /\ api.refreshes < MaxRefresh
    /\ refreshTask.pc = "idle"
    /\ IF ~rulesValid(config)
       THEN /\ api' = [api EXCEPT !.saves = @ + 1, !.reply = "400"]
            /\ UNCHANGED <<storageVars, rulesConfig, refreshTask, otherRefresh, state,
                           stats, vfsCallback,
                           vfsVars>>
       ELSE /\ rulesFile' = config
            /\ backups' = backupCurrent(backups, now, rulesFile)
            /\ UNCHANGED <<partial, now, saver>>
            /\ refreshBegin(config, "put")
            /\ api' = [api EXCEPT !.saves = @ + 1, !.refreshes = @ + 1,
                                  !.reply = IF stateBuilder THEN "pending" ELSE "success"]
    /\ UNCHANGED <<storeVars, vfsRelevantProps, stateBuilder, consumer, kv, pipeline, historyVars>>

\* POST /api/fuse/refresh (handleRefresh)
HandleRefresh ==
    /\ InLive
    /\ api.refreshes < MaxRefresh
    /\ refreshTask.pc = "idle"
    /\ refreshBegin(rulesFile, "post")
    /\ api' = [api EXCEPT !.refreshes = @ + 1]
    /\ UNCHANGED <<storeVars, vfsRelevantProps, stateBuilder, consumer, kv, storageVars, pipeline,
                   historyVars>>

(***************************************************************************)
(* Specifications                                                          *)
(***************************************************************************)
\* the writer on the properties of file f
WriterOf(f) ==
    \E p \in WrittenProps(f) :
        \/ \E v \in ValuesOf(f, p) : WriterSet(f, p, v)
        \/ WriterDel(f, p)

Writer == \E f \in FileIds : WriterOf(f)

\* the event path alone: the writer, the connection and main()'s pipeline
NextEvents ==
    \/ Writer
    \/ Disconnect
    \/ Reconnect
    \/ BootRead
    \/ LiveRead
    \/ LiveReadFailed
    \/ PipelineFetched

SpecEvents == Init /\ [][NextEvents]_vars

\* the program as main() builds it: the event path and the API requests
\* (refresh() returns before its replay, no state builder being attached)
Next ==
    \/ NextEvents
    \/ \E config \in SubmittedConfigs : HandleUpdateRules(config)
    \/ HandleRefresh

Spec == Init /\ [][Next]_vars

\* the writer on the filePath of the files
PathWriter ==
    \E f \in FileIds :
        \/ \E v \in ValuesOf(f, "filePath") : WriterSet(f, "filePath", v)
        \/ WriterDel(f, "filePath")

\* the program with the state builder attached, refreshed on request
\* (POST /api/fuse/refresh) while the writer sets and deletes file paths
NextAttached ==
    \/ PathWriter
    \/ Disconnect
    \/ Reconnect
    \/ BootRead
    \/ LiveRead
    \/ LiveReadFailed
    \/ PipelineFetched
    \/ HandleRefresh
    \/ RefreshRead
    \/ RefreshFetched
    \/ RefreshScan

SpecAttached == InitAttached /\ [][NextAttached]_vars

(***************************************************************************)
(* The handlers of the state builder applied to fetched values: rule       *)
(* selection and the tree under any sequence of additions, moves and       *)
(* deletions.  An event is applied with the value its GET returned.        *)
(***************************************************************************)
\* config order: a catch-all of low priority, a disabled rule of the highest
\* priority, and two rules of equal priority for titled files
CfgPriority ==
    Config(<<Rule("low", TRUE, 10, Grp("AND", <<>>),
                  <<Lit(<<"L", Slash>>), Var("fileName")>>, FALSE),
             Rule("off", FALSE, 99, Grp("AND", <<>>),
                  <<Lit(<<"D", Slash>>), Var("fileName")>>, FALSE),
             Rule("first", TRUE, 80, Grp("AND", <<Cnd("EXISTS", "title", Undef)>>),
                  <<Lit(<<"M", Slash>>), Var("title"), Lit(<<Slash>>), Var("fileName")>>,
                  FALSE),
             Rule("second", TRUE, 80, Grp("AND", <<Cnd("EXISTS", "title", Undef)>>),
                  <<Lit(<<"T", Slash>>), Var("fileName")>>, FALSE)>>)

\* a rule that matches every file and needs the title, followed by a
\* catch-all of lower priority
StrictThenLow(fallbackToUnsorted) ==
    Config(<<Rule("strict", TRUE, 90, Grp("AND", <<>>),
                  <<Lit(<<"S", Slash>>), Var("title")>>, fallbackToUnsorted),
             Rule("low", TRUE, 50, Grp("AND", <<>>),
                  <<Lit(<<"L", Slash>>), Var("fileName")>>, FALSE)>>)

CfgFallback == StrictThenLow(TRUE)
CfgContinue == StrictThenLow(FALSE)

\* a rule for titled files, and a default rule that has conditions of its
\* own: it is for titled files too
CfgDefaultCond ==
    [rules |-> <<Rule("titled", TRUE, 80, Grp("AND", <<Cnd("EXISTS", "title", Undef)>>),
                      <<Lit(<<"M", Slash>>), Var("title")>>, FALSE)>>,
     hasDefaultRule |-> TRUE,
     defaultRule |-> Rule("default", TRUE, 0, Grp("AND", <<Cnd("EXISTS", "title", Undef)>>),
                          <<Lit(<<"D", Slash>>), Var("fileName")>>, FALSE)]

SelectionConfigs == {CfgPriority, CfgFallback, CfgContinue, CfgDefaultCond}

\* the properties applied and the values their GET may return
AppliedProps == {"filePath", "title", "fileSize", "mtime", "fileName"}
AppliedValues(f, p) ==
    CASE p = "filePath" -> {FilePathOf(f)}
      [] p = "title" -> {<<"x">>, <<>>}
      [] p = "fileName" -> {<<"b", "?">>}
      [] p = "mtime" -> {<<"7">>}
      [] OTHER -> {<<"5">>}

\* set events applied in a behaviour
MaxApplied == 4

InitApplied == InitFrom(SelectionConfigs, FALSE)

\* handlePropertySet of a relevant property whose GET returned v
ApplySet(f, p, v) ==
    /\ stats.propertiesFetched < MaxApplied
    /\ isVfsRelevantProperty(p, vfsRelevantProps)
    /\ SetBundle(handlePropertySetFetched(Bundle, vfsCallback, rulesConfig, f, p,
                                          [found |-> TRUE, v |-> v]))
    /\ UNCHANGED <<storeVars, vfsRelevantProps, vfsCallback, rulesConfig, stateBuilder,
                   consumer, kv,
                   storageVars, pipeline, refreshTask, otherRefresh, api, historyVars>>

\* handlePropertyDelete on a file the builder holds
ApplyDel(f, p) ==
    /\ Has(state, f)
    /\ SetBundle(handlePropertyDelete(Bundle, f, p))
    /\ UNCHANGED <<storeVars, vfsRelevantProps, vfsCallback, rulesConfig, stateBuilder,
                   consumer, kv,
                   storageVars, pipeline, refreshTask, otherRefresh, api, historyVars>>

NextApplied ==
    \E f \in FileIds, p \in AppliedProps :
        \/ \E v \in AppliedValues(f, p) : ApplySet(f, p, v)
        \/ ApplyDel(f, p)

SpecApplied == InitApplied /\ [][NextApplied]_vars

(***************************************************************************)
(* The shipped rule config (getDefaultRulesConfig) and the events of one   *)
(* episode file applied under it.                                          *)
(***************************************************************************)
\* fileType is video, subtitle or torrent
supportedFileTypeCondition ==
    Grp("OR", <<Cnd("EQUALS", "fileType", Str(VideoType)),
                Cnd("EQUALS", "fileType", Str(SubtitleType)),
                Cnd("EQUALS", "fileType", Str(TorrentType))>>)

\* {title|originalTitle}
TitleToken == DefField("title", "originalTitle")
\* {subtitleLanguage?(.{subtitleLanguage})}
SubtitleTokens == CondTok("subtitleLanguage", <<Lit(<<".">>), Var("subtitleLanguage")>>)
\* {version?( {version})}
VersionTokens == CondTok("version", <<Lit(<<" ">>), Var("version")>>)
\* {movieYear?( ({movieYear}))}
YearTokens == CondTok("movieYear", <<Lit(<<" ", "(">>), Var("movieYear"), Lit(<<")">>)>>)

TvShowsDir == <<"T", "V", " ", "S", "h", "o", "w", "s", Slash>>
MoviesDir == <<"M", "o", "v", "i", "e", "s", Slash>>
ImagesDir == <<"I", "m", "a", "g", "e", "s", Slash>>

tvExtrasRule ==
    Rule("tv-extras", TRUE, 100,
         Grp("AND", <<supportedFileTypeCondition,
                      Cnd("EXISTS", "extension", Undef),
                      Cnd("EQUALS", "extra", Bool(TRUE))>>),
         <<Lit(TvShowsDir), TitleToken, Lit(<<Slash, "e", "x", "t", "r", "a", Slash>>), TitleToken,
           CondTok("season", <<Lit(<<" ", "S">>), VarFmt("season", "pad2")>>),
           CondTok("episode", <<Lit(<<"E">>), VarFmt("episode", "pad2")>>),
           SubtitleTokens, VersionTokens, Lit(<<".">>), Var("extension")>>,
         TRUE)

tvSeriesRule ==
    Rule("tv-series", TRUE, 90,
         Grp("AND", <<supportedFileTypeCondition,
                      Cnd("EXISTS", "extension", Undef),
                      Cnd("EXISTS", "season", Undef),
                      Cnd("EXISTS", "episode", Undef)>>),
         <<Lit(TvShowsDir), TitleToken, Lit(<<Slash, "S">>), VarFmt("season", "pad2"),
           Lit(<<Slash>>), TitleToken, Lit(<<" ", "S">>), VarFmt("season", "pad2"),
           Lit(<<"E">>), VarFmt("episode", "pad2"),
           SubtitleTokens, VersionTokens, Lit(<<".">>), Var("extension")>>,
         TRUE)

moviesRule ==
    Rule("movies", TRUE, 80,
         Grp("AND", <<supportedFileTypeCondition,
                      Cnd("EXISTS", "extension", Undef),
                      Grp("OR", <<Cnd("EXISTS", "title", Undef),
                                  Cnd("EXISTS", "originalTitle", Undef)>>),
                      Cnd("NOT_EXISTS", "season", Undef)>>),
         <<Lit(MoviesDir), TitleToken, YearTokens, Lit(<<Slash>>), TitleToken, YearTokens,
           SubtitleTokens, VersionTokens, Lit(<<".">>), Var("extension")>>,
         TRUE)

imagesRule ==
    Rule("images", TRUE, 70,
         Grp("AND", <<Grp("OR", <<Cnd("EQUALS", "fileType", Str(<<"i", "m", "a", "g", "e">>)),
                                  Cnd("EQUALS", "fileType", Str(<<"d", "o", "c", "u", "m", "e", "n", "t">>))>>)>>),
         <<Lit(ImagesDir), Var("fileName")>>,
         TRUE)

getDefaultRulesConfig == Config(<<tvExtrasRule, tvSeriesRule, moviesRule, imagesRule>>)

\* the episode file and the values written for it
EpisodeFile == "f1"
EpisodePath == <<"t", "v", Slash, "b", "b", Slash, "s", "0", "1", "e", "0", "1", ".", "m", "k", "v">>
EpisodeName == <<"s", "0", "1", "e", "0", "1", ".", "m", "k", "v">>
ShowTitle == <<"B", "r", "e", "a", "k", "i", "n", "g", " ", "B", "a", "d">>
EpisodeProps == {"filePath", "titles/eng", "title", "season", "episode", "fileType", "extension"}
EpisodeValues(p) ==
    CASE p = "filePath" -> {EpisodePath}
      [] p = "titles/eng" -> {ShowTitle}
      [] p = "title" -> {ShowTitle}
      [] p = "season" -> {<<"1">>, <<"0">>}
      [] p = "episode" -> {<<"1">>}
      [] p = "fileType" -> {VideoType}
      [] OTHER -> {<<"m", "k", "v">>}

\* set events handled in a behaviour
MaxEpisodeEvents == 7

InitDefaults == InitFrom({getDefaultRulesConfig}, FALSE)

\* handlePropertySet of a set event whose GET returns v: a property that is
\* not VFS-relevant is counted and skipped
HandleSet(f, p, v) ==
    /\ stats.propertiesFetched + stats.propertiesSkipped < MaxEpisodeEvents
    /\ IF isVfsRelevantProperty(p, vfsRelevantProps)
       THEN SetBundle(handlePropertySetFetched(Bundle, vfsCallback, rulesConfig, f, p,
                                               [found |-> TRUE, v |-> v]))
       ELSE /\ stats' = [stats EXCEPT !.propertiesSkipped = @ + 1]
            /\ UNCHANGED <<state, vfsVars>>
    /\ UNCHANGED <<storeVars, vfsRelevantProps, vfsCallback, rulesConfig, stateBuilder,
                   consumer, kv,
                   storageVars, pipeline, refreshTask, otherRefresh, api, historyVars>>

NextDefaults ==
    \E p \in EpisodeProps :
        \/ \E v \in EpisodeValues(p) : HandleSet(EpisodeFile, p, v)
        \/ ApplyDel(EpisodeFile, p)

SpecDefaults == InitDefaults /\ [][NextDefaults]_vars

(***************************************************************************)
(* ConfigStorage on its own: saves of rule configs, the clock, and the     *)
(* process being killed and started again.  writeFileSync opens the rules  *)
(* file with truncation, writes the text and closes it: between the two    *)
(* steps the file holds a part of the text.                                *)
(***************************************************************************)
SavedConfigs == {CfgFlat}

\* saves in a behaviour, and the last value of the clock
MaxStorageSaves == 6
MaxTime == 6

InitStorage == InitFrom({CfgTitle}, FALSE)

\* a millisecond passes
Tick ==
    /\ now < MaxTime
    /\ now' = now + 1
    /\ UNCHANGED <<storeVars, builderVars, vfsVars, rulesConfig, stateBuilder, consumer,
                   kv, rulesFile,
                   partial, backups, saver, pipeline, refreshTask, otherRefresh, api, historyVars>>

\* saveRulesConfig(config) up to the point where writeFileSync has opened the
\* rules file: the backup is made and the old backups are removed, the file
\* is truncated
SaveOpen(config) ==
    /\ saver.pc = "idle"
    /\ saver.saves < MaxStorageSaves
    /\ backups' = backupCurrent(backups, now, rulesFile)
    /\ rulesFile' = config
    /\ partial' = TRUE
    /\ saver' = [saver EXCEPT !.pc = "writing", !.saves = @ + 1]
    /\ UNCHANGED <<storeVars, builderVars, vfsVars, rulesConfig, stateBuilder, consumer, kv, now,
                   pipeline, refreshTask, otherRefresh, api, historyVars>>

\* writeFileSync has written the whole text; saveRulesConfig returns
SaveWritten ==
    /\ saver.pc = "writing"
    /\ partial' = FALSE
    /\ saver' = [saver EXCEPT !.pc = "idle"]
    /\ UNCHANGED <<storeVars, builderVars, vfsVars, rulesConfig, stateBuilder, consumer,
                   kv, rulesFile,
                   backups, now, pipeline, refreshTask, otherRefresh, api, historyVars>>

\* the process is killed while it writes the rules file
Crash ==
    /\ saver.pc = "writing"
    /\ saver' = [saver EXCEPT !.pc = "down"]
    /\ UNCHANGED <<storeVars, builderVars, vfsVars, rulesConfig, stateBuilder, consumer,
                   kv, rulesFile,
                   partial, backups, now, pipeline, refreshTask, otherRefresh, api, historyVars>>

\* ConfigStorage.getRulesConfig: the config of the rules file; when
\* JSON.parse throws on the text, createDefaultConfig writes the shipped
\* config to the rules file and returns it
getRulesConfig == IF partial THEN getDefaultRulesConfig ELSE rulesFile

\* the process is started again: start() loads the rules file
Restart ==
    /\ saver.pc = "down"
    /\ rulesConfig' = getRulesConfig
    /\ rulesFile' = getRulesConfig
    /\ partial' = FALSE
    /\ saver' = [saver EXCEPT !.pc = "idle"]
    /\ UNCHANGED <<storeVars, builderVars, vfsVars, stateBuilder, consumer, kv, backups, now,
                   pipeline, refreshTask, otherRefresh, api, historyVars>>

NextStorage ==
    \/ Tick
    \/ \E config \in SavedConfigs : SaveOpen(config)
    \/ SaveWritten
    \/ Crash
    \/ Restart

SpecStorage == InitStorage /\ [][NextStorage]_vars

(***************************************************************************)
(* Properties                                                              *)
(***************************************************************************)
\* the rule resolution of a file's properties under a rule config
PathUnder(cfg, props, fid) ==
    computeVirtualPath(cfg, flatPropertiesToMetadata(props, fid),
                       flatPropertiesToMetadata(props, fid).sourcePath.s)

\* the rule resolution of what the state builder holds for a file
ResolvedPath(fid) == PathUnder(rulesConfig, state[fid], fid)

\* the state builder holds a filePath for the file and the rules give a path
Resolves(fid) ==
    /\ isFileComplete(state, fid)
    /\ ~ResolvedPath(fid).threw
    /\ ResolvedPath(fid).path # <<>>

\* the tree has a file node that belongs to the file
HasFileNode(fid) ==
    \E p \in DOMAIN nodes : nodes[p].type = "file" /\ nodes[p].metadata.hashId = fid

\* the files of the fileId index
Projected == DOMAIN hashIdToVirtualPath

\* the event log says the file's filePath is set: its last filePath event is
\* a set
CompleteInLog(fid) ==
    \E i \in DOMAIN stream :
        /\ stream[i] = [type |-> "set", hashId |-> fid, property |-> "filePath"]
        /\ \A j \in (i + 1)..Len(stream) :
             stream[j] # [type |-> "del", hashId |-> fid, property |-> "filePath"]

\* C1: a file has a file node in the projection exactly when the state
\* builder holds a filePath for it and rule resolution yields a virtual path
C1_NodeIffResolves == \A fid \in FileIds : HasFileNode(fid) <=> Resolves(fid)

\* C2: the path of a projected file is computeVirtualPath of the properties
\* the state builder holds for it now
C2_PathIsRecomputed ==
    \A fid \in Projected :
        Resolves(fid) => hashIdToVirtualPath[fid] = ResolvedPath(fid).path

\* C3: no two distinct files are mapped to the same virtual path in the
\* fileId index
C3_PathsDistinct ==
    \A a, b \in Projected : a # b => hashIdToVirtualPath[a] # hashIdToVirtualPath[b]

\* C4: the handler is given the stream entries in stream order: an entry is
\* first handled only when every entry before it has been handled, in the
\* bootstrap, in the live tail and across the hand-off
C4_StreamOrder ==
    [][\A k \in handled' \ handled : \A j \in 1..(k - 1) : j \in handled']_vars

\* C4 witness: entries were handled by the bootstrap and by the live tail
C4_HandledAcrossHandOff ==
    bootReturned >= 1 /\ liveFirst # 0 /\ Cardinality(handled) >= 3

\* C5: the live tail handles nothing before the bootstrap has returned, and
\* the first entry it handles is the one after the id the bootstrap returned
C5_HandOff ==
    /\ InBoot => liveFirst = 0 /\ bootReturned = -1
    /\ InLive => bootReturned >= 0
    /\ liveFirst # 0 => liveFirst = bootReturned + 1

\* C5 witness: the bootstrap processed entries and the live tail has handled
\* its first entry
C5_LiveAfterBootstrap == liveFirst # 0 /\ bootReturned >= 1

\* C6: the read cursor of main()'s consumers is never past an entry whose
\* handler has not returned normally
C6_CursorBehindFailures == \A k \in 1..pipeline.lastId : k \in succeeded

C9_RepliesAfterReplacement ==
    [][(api.reply # "success" /\ api'.reply = "success")
       => \A fid \in Projected' :
            (/\ isFileComplete(state', fid)
             /\ ~PathUnder(rulesFile', state'[fid], fid).threw)
            => /\ hashIdToVirtualPath'[fid] = PathUnder(rulesFile', state'[fid], fid).path
               /\ Has(nodes', normalizePath(PathUnder(rulesFile', state'[fid], fid).path))]_vars

\* C10: once handleUpdateRules has replied success, every property that is
\* relevant under the saved rules is relevant for the state builder
C10_RelevanceFollowsRules ==
    api.reply = "success"
    => \A p \in {"filePath", "title"} :
         isVfsRelevantProperty(p, extractVfsProperties(rulesFile))
         => isVfsRelevantProperty(p, vfsRelevantProps)

\* the paths at which a reader finds a file node that belongs to the file
PathsOf(ns, fid) ==
    {p \in DOMAIN ns : ns[p].type = "file" /\ ns[p].metadata.hashId = fid}

\* a reader resolves the path: exists / getattr find a node, or readdir of
\* its directory lists its name
ResolvesAt(ns, p) ==
    \/ exists([nodes |-> ns], p)
    \/ getattrFound([nodes |-> ns], p)
    \/ readdirHas([nodes |-> ns], PathDirname(normalizePath(p)), PathBasename(p))

\* this step moves the file: the fileId index maps it to another path
Moved(fid) ==
    /\ fid \in Projected
    /\ fid \in Projected'
    /\ hashIdToVirtualPath'[fid] # hashIdToVirtualPath[fid]

\* C11: in every state a reader can observe, a file is found at no more than
\* one path; the step that moves a file leaves nothing that resolves at its
\* old path, and the file was not found at its new path before that step
C11_OnePathPerFile ==
    /\ [](\A fid \in FileIds : Cardinality(PathsOf(nodes, fid)) <= 1)
    /\ [][\A fid \in FileIds :
            Moved(fid) =>
              /\ ~ResolvesAt(nodes', hashIdToVirtualPath[fid])
              /\ normalizePath(hashIdToVirtualPath'[fid]) \notin PathsOf(nodes, fid)
              /\ PathsOf(nodes', fid) = {normalizePath(hashIdToVirtualPath'[fid])}]_vars

\* C11 witness: f1 was placed at Unsorted/a by its filePath and has moved to
\* M/x when its title arrived
C11_FileHasMoved ==
    /\ rulesConfig = CfgTitle
    /\ Len(stream) >= 2
    /\ stream[1] = [type |-> "set", hashId |-> "f1", property |-> "filePath"]
    /\ {1, 2} \subseteq succeeded
    /\ "f1" \in Projected
    /\ hashIdToVirtualPath["f1"] = <<"M", Slash, "x">>
    /\ PathsOf(nodes, "f1") = {<<Slash, "M", Slash, "x">>}

\* entry k of the stream is a del that destroys the file's property map: a
\* del of its filePath, or a del after which the builder holds no map for it
Destroys(k) ==
    /\ stream[k].type = "del"
    /\ (stream[k].property = "filePath" \/ ~Has(state', stream[k].hashId))

\* after this step the file has no property map, no node and no index
\* entry, and nothing resolves at the path it was indexed at
GoneAfter(fid) ==
    /\ ~Has(state', fid)
    /\ fid \notin Projected'
    /\ PathsOf(nodes', fid) = {}
    /\ fid \in Projected => ~ResolvesAt(nodes', hashIdToVirtualPath[fid])

\* C12: when the handler of a del entry returns, a property map is never left
\* empty, and a del of the filePath or one that leaves the map empty has
\* destroyed the map and removed the file from the projection: no node of
\* the file, nothing listed at its old path, no entry in the fileId index
C12_DelRemovesFile ==
    [][\A k \in succeeded' \ succeeded :
         /\ Destroys(k) => GoneAfter(stream[k].hashId)
         /\ (stream[k].type = "del" /\ Has(state', stream[k].hashId))
            => DOMAIN state'[stream[k].hashId] # {}]_vars

\* C12 witness: f1, the only file of the stream, was complete and projected,
\* and the del of its filePath has been handled
C12_ProjectedFileDeleted ==
    /\ rulesConfig = CfgFlat
    /\ \A i \in DOMAIN stream : stream[i].hashId = "f1"
    /\ stats.filesComplete >= 1
    /\ \E k \in succeeded : stream[k] = [type |-> "del", hashId |-> "f1", property |-> "filePath"]
    /\ "f1" \notin Projected

\* C13: no directory other than the root has an empty children set
C13_NoEmptyDirectory ==
    \A p \in DOMAIN nodes :
        (nodes[p].type = "directory" /\ p # RootPath) => nodes[p].children # {}

\* a read of the live consumer fails in this step
LiveReadFails == pipeline.pc = "live_read" /\ ~isConnected /\ pipeline' # pipeline

\* C14: when a read of the live consumer fails, the consumer pauses before
\* its next read attempt (it is not at its next read yet) and keeps its
\* cursor, and no entry is handled
C14_PauseBeforeRetry ==
    [][LiveReadFails =>
         /\ pipeline'.pc \notin {"live_read", "live_retry"}
         /\ pipeline'.lastId = pipeline.lastId
         /\ handled' = handled]_vars

\* entry k is a set of a property the state builder fetches
FetchedSet(k) ==
    /\ stream[k].type = "set"
    /\ isVfsRelevantProperty(stream[k].property, vfsRelevantProps)

\* C15: the handler of a relevant set entry returns normally, so that the
\* entry counts as handled and the cursor moves past it, only when its GET
\* was answered by the store: a GET that fails because the store is
\* disconnected does not end the handling of the entry
C15_FailedGetNotHandled ==
    [][\A k \in succeeded' \ succeeded : FetchedSet(k) => isConnected]_vars

\* the set event of property p of file f applied to B with the fetched value v
AppliedTo(B, f, p, v) ==
    handlePropertySetFetched(B, vfsCallback, rulesConfig, f, p, [found |-> TRUE, v |-> v])

\* twice, the bundle after an application, has written the file's node with
\* a new reading of the clock as its mtime
Restamped(twice, f) ==
    /\ ~twice.threw
    /\ \E q \in PathsOf(twice.V.nodes, f) : twice.V.nodes[q].mtime = ClockTime

\* from once to twice the nodes, the indices and the counters are the same,
\* and no node has a new mtime
NoOpAfter(once, twice, f) == twice.V = once.V /\ ~Restamped(twice, f)

\* applied to once, the bundle after the first application of an event, the
\* second application changes nothing
SecondIsNoOp(once, f, p, v) == NoOpAfter(once, AppliedTo(once, f, p, v), f)

\* C16: from every state, applying a set event a second time with the same
\* fetched value changes nothing in the projection: the same nodes with the
\* same contents (mtime included), parents and children, the same indices,
\* and the same fileCount, directoryCount and totalSize
C16_SecondSetIsNoOp ==
    \A f \in FileIds, p \in AppliedProps :
        isVfsRelevantProperty(p, vfsRelevantProps) =>
            \A v \in AppliedValues(f, p) : SecondIsNoOp(AppliedTo(Bundle, f, p, v), f, p, v)

\* handleUpdateRules saves in this step a config identical to the current
\* one, and the refresh it awaits returns
SavesSameConfig ==
    /\ api'.saves = api.saves + 1
    /\ api'.reply = "success"
    /\ rulesFile' = rulesFile
    /\ rulesFile = rulesConfig

\* C17: a save of a rule config identical to the current one, with the
\* refresh it triggers, leaves the projection as it was: the same nodes, the
\* same fileId and source path indices, the same counters, and the same
\* rules in memory
C17_SameConfigKeepsProjection ==
    [][SavesSameConfig =>
         /\ nodes' = nodes
         /\ hashIdToVirtualPath' = hashIdToVirtualPath
         /\ sourcePathToVirtualPath' = sourcePathToVirtualPath
         /\ cachedStats' = cachedStats
         /\ rulesConfig' = rulesConfig]_vars

\* C17 witness: the rules were 'A/{fileName}' from the start (title is not a
\* relevant property), the same config was saved and answered with success,
\* and f1 is projected
C17_SameConfigSaved ==
    /\ api.saves = 1
    /\ api.reply = "success"
    /\ rulesFile = CfgFlat
    /\ vfsRelevantProps = extractVfsProperties(CfgFlat)
    /\ "title" \notin vfsRelevantProps
    /\ "f1" \in Projected
    /\ PathsOf(nodes, "f1") # {}

\* every rule of the config, the default rule included, passes the template
\* and the condition validation
EveryRuleValid(config) ==
    /\ \A i \in 1..Len(config.rules) :
          /\ validateTemplate(config.rules[i].template)
          /\ validateConditions(config.rules[i].conditions)
    /\ config.hasDefaultRule =>
          /\ validateTemplate(config.defaultRule.template)
          /\ validateConditions(config.defaultRule.conditions)

\* C18: a PUT of a rule config is saved only when every rule of it, the
\* default rule included, passes validation; a PUT answered with 400 saves
\* nothing, starts no refresh and leaves the rules in memory and the
\* projection as they were
C18_InvalidConfigRejected ==
    [][api'.saves = api.saves + 1 =>
         IF api'.reply = "400"
         THEN /\ rulesFile' = rulesFile
              /\ rulesConfig' = rulesConfig
              /\ api'.refreshes = api.refreshes
              /\ refreshTask' = refreshTask
              /\ UNCHANGED vfsVars
         ELSE EveryRuleValid(rulesFile')]_vars

\* the metadata of what the state builder holds for a file, and the path
\* rule selection gives it
MetadataOf(fid) == flatPropertiesToMetadata(state[fid], fid)
SelectedPath(cfg, fid) == computeVirtualPath(cfg, MetadataOf(fid),
MetadataOf(fid).sourcePath.s).path

\* rule i is considered before rule j: higher priority, or equal priority
\* and earlier position in the config
ComesBefore(rules, i, j) ==
    \/ rules[i].priority > rules[j].priority
    \/ (rules[i].priority = rules[j].priority /\ i < j)

\* rule i is enabled and its conditions hold
Matches(rules, i, md) == rules[i].enabled /\ evaluateGroup(rules[i].conditions, md)

\* rule i matches and its template interpolates to a path
Yields(rules, i, md) ==
    /\ Matches(rules, i, md)
    /\ interpolate(rules[i].template, md).ok
    /\ interpolate(rules[i].template, md).s # <<>>

\* the path the template of rule i gives
PathOfRule(rules, i, md) == sanitizePath(interpolate(rules[i].template, md).s)

\* rule i matches, its template fails, and it falls back to Unsorted
GivesUp(rules, i, md) ==
    Matches(rules, i, md) /\ ~Yields(rules, i, md) /\ rules[i].fallbackToUnsorted

\* no rule considered before rule i has decided the path
Reached(rules, i, md) ==
    \A j \in 1..Len(rules) :
        ComesBefore(rules, j, i) => ~Yields(rules, j, md) /\ ~GivesUp(rules, j, md)

\* C19: rule selection returns the path of the first rule, among the enabled
\* ones taken in descending priority and, at equal priority, in config
\* order, whose conditions hold and whose template interpolates; a path that
\* only a disabled rule gives is never returned
C19_FirstEnabledRuleWins ==
    \A fid \in DOMAIN state :
        isFileComplete(state, fid) =>
            \A i \in 1..Len(rulesConfig.rules) :
                /\ (Yields(rulesConfig.rules, i, MetadataOf(fid))
                    /\ Reached(rulesConfig.rules, i, MetadataOf(fid)))
                   => SelectedPath(rulesConfig, fid)
                        = PathOfRule(rulesConfig.rules, i, MetadataOf(fid))
                /\ (~rulesConfig.rules[i].enabled
                    /\ interpolate(rulesConfig.rules[i].template, MetadataOf(fid)).ok)
                   => SelectedPath(rulesConfig, fid)
                        # PathOfRule(rulesConfig.rules, i, MetadataOf(fid))

\* C19 witness: under CfgPriority the titled file f1 is placed by rule
\* 'first', not by the disabled rule of higher priority, the rule of equal
\* priority that follows it, or the catch-all that precedes it in the config
C19_TitledFilePlaced ==
    /\ rulesConfig = CfgPriority
    /\ isFileComplete(state, "f1")
    /\ "title" \in DOMAIN state["f1"]
    /\ state["f1"]["title"] = <<"x">>
    /\ "f1" \in Projected
    /\ hashIdToVirtualPath["f1"] = <<"M", Slash, "x", Slash, "a">>

\* the config with rule i disabled
WithoutRule(cfg, i) == [cfg EXCEPT !.rules[i].enabled = FALSE]

\* C20: when a rule is reached, its conditions hold and its template does
\* not interpolate, the path is Unsorted/<fileName> if the rule has
\* fallbackToUnsorted, and otherwise the path selection gives without that
\* rule
C20_FallbackOrNextRule ==
    \A fid \in DOMAIN state :
        isFileComplete(state, fid) =>
            \A i \in 1..Len(rulesConfig.rules) :
                (/\ Reached(rulesConfig.rules, i, MetadataOf(fid))
                 /\ Matches(rulesConfig.rules, i, MetadataOf(fid))
                 /\ ~interpolate(rulesConfig.rules[i].template, MetadataOf(fid)).ok)
                => SelectedPath(rulesConfig, fid)
                     = IF rulesConfig.rules[i].fallbackToUnsorted
                       THEN UnsortedDir \o MetadataOf(fid).fileName.s
                       ELSE SelectedPath(WithoutRule(rulesConfig, i), fid)

\* C20 witness: under CfgFallback the untitled file f1 is at Unsorted/a,
\* though the catch-all rule that follows would have placed it at L/a
C20_FellBackToUnsorted ==
    /\ rulesConfig = CfgFallback
    /\ isFileComplete(state, "f1")
    /\ "title" \notin DOMAIN state["f1"]
    /\ "f1" \in Projected
    /\ hashIdToVirtualPath["f1"] = UnsortedDir \o <<"a">>

\* no rule of the config decides the path of a file with metadata md
NoRuleDecides(rules, md) ==
    \A i \in 1..Len(rules) : ~Yields(rules, i, md) /\ ~GivesUp(rules, i, md)

\* the default rule applied as a regular rule is applied: its conditions are
\* evaluated and its template is used if they hold and it interpolates
DefaultYields(cfg, md) ==
    /\ cfg.hasDefaultRule
    /\ evaluateGroup(cfg.defaultRule.conditions, md)
    /\ interpolate(cfg.defaultRule.template, md).ok
    /\ interpolate(cfg.defaultRule.template, md).s # <<>>

\* C21: when no enabled rule decides the path, the path is that of the
\* default rule's template if the default rule's conditions hold and the
\* template interpolates, and Unsorted/<fileName> otherwise
C21_DefaultRuleAsRegular ==
    \A fid \in DOMAIN state :
        (isFileComplete(state, fid) /\ NoRuleDecides(rulesConfig.rules, MetadataOf(fid)))
        => SelectedPath(rulesConfig, fid)
             = IF DefaultYields(rulesConfig, MetadataOf(fid))
               THEN sanitizePath(interpolate(rulesConfig.defaultRule.template,
                                             MetadataOf(fid)).s)
               ELSE UnsortedDir \o FallbackFileName(MetadataOf(fid),
                                                    MetadataOf(fid).sourcePath.s)

\* the path has none of the characters < > : " | ? * after its drive prefix
Sanitized(p) ==
    LET hasDrive == Len(p) >= 2 /\ p[1] \in LetterSet /\ p[2] = ":"
    IN \A i \in 1..Len(p) : p[i] \in IllegalChars => (hasDrive /\ i = 2)

\* the path of the fileId index without its leading slash
Relative(p) == IF StartsWith(p, <<Slash>>) THEN Tail(p) ELSE p

\* C22: the path rule selection gives a complete file, and the path of every
\* projected file, has none of the characters < > : " | ? * outside a
\* leading drive prefix
C22_PathsAreSanitized ==
    /\ \A fid \in DOMAIN state :
         isFileComplete(state, fid) => Sanitized(SelectedPath(rulesConfig, fid))
    /\ \A fid \in Projected : Sanitized(Relative(hashIdToVirtualPath[fid]))

\* the six events of the episode file have been handled, and nothing else is
\* held for it: the titles/eng event is either held or was skipped
EpisodeEventsApplied ==
    /\ Has(state, EpisodeFile)
    /\ DOMAIN state[EpisodeFile] \ {"titles/eng"}
         = {"filePath", "season", "episode", "fileType", "extension"}
    /\ state[EpisodeFile]["season"] = <<"1">>
    /\ ("titles/eng" \in DOMAIN state[EpisodeFile] \/ stats.propertiesSkipped > 0)

\* /TV Shows/Breaking Bad/S01/Breaking Bad S01E01.mkv
EpisodeNodePath ==
    <<Slash>> \o TvShowsDir \o ShowTitle \o <<Slash, "S", "0", "1", Slash>> \o ShowTitle
        \o <<" ", "S", "0", "1", "E", "0", "1", ".", "m", "k", "v">>

\* C23: under the shipped rules, once the events filePath, titles/eng,
\* season = 1, episode = 1, fileType and extension of the episode file have
\* been handled, the tree has a file node at
\* /TV Shows/Breaking Bad/S01/Breaking Bad S01E01.mkv
C23_EpisodeNode ==
    EpisodeEventsApplied => IsFile(VFS, EpisodeNodePath)

\* the state builder holds a filePath, season = 0 and an episode for the file
SeasonZero(fid) ==
    /\ isFileComplete(state, fid)
    /\ {"season", "episode"} \subseteq DOMAIN state[fid]
    /\ state[fid]["season"] = <<"0">>

\* the position of the TV-with-season-and-episode rule in the shipped config
TvSeriesIndex ==
    CHOOSE i \in DOMAIN getDefaultRulesConfig.rules :
        getDefaultRulesConfig.rules[i] = tvSeriesRule

\* C24: under the shipped rules a file with season = 0 and an episode has the
\* number 0 as its season, for which EXISTS holds and NOT_EXISTS does not;
\* the movies rule does not match it, and its path is the one the TV rule
\* gives: the rule's template if it interpolates, Unsorted/<fileName> if not
C24_SeasonZeroIsTv ==
    \A fid \in DOMAIN state :
        SeasonZero(fid) =>
            /\ MetadataOf(fid).season = Num(0)
            /\ evaluateCondition(Cnd("EXISTS", "season", Undef), MetadataOf(fid))
            /\ ~evaluateCondition(Cnd("NOT_EXISTS", "season", Undef), MetadataOf(fid))
            /\ ~evaluateGroup(moviesRule.conditions, MetadataOf(fid))
            /\ Matches(rulesConfig.rules, TvSeriesIndex, MetadataOf(fid))
            /\ SelectedPath(rulesConfig, fid)
                 = IF Yields(rulesConfig.rules, TvSeriesIndex, MetadataOf(fid))
                   THEN PathOfRule(rulesConfig.rules, TvSeriesIndex, MetadataOf(fid))
                   ELSE UnsortedDir \o MetadataOf(fid).fileName.s

\* C24 witness: the titled episode file with season = 0 is projected at
\* TV Shows/Breaking Bad/S00/Breaking Bad S00E01.mkv
C24_SpecialEpisodePlaced ==
    /\ SeasonZero(EpisodeFile)
    /\ "title" \in DOMAIN state[EpisodeFile]
    /\ EpisodeFile \in Projected
    /\ hashIdToVirtualPath[EpisodeFile]
         = TvShowsDir \o ShowTitle \o <<Slash, "S", "0", "0", Slash>> \o ShowTitle
             \o <<" ", "S", "0", "0", "E", "0", "1", ".", "m", "k", "v">>
    /\ IsFile(VFS, normalizePath(hashIdToVirtualPath[EpisodeFile]))

\* C25: the rules file never holds a partially written text when it can be
\* read: not after the process was killed, and not when getRulesConfig
\* reads it
C25_RulesFileWhole == saver.pc # "writing" => ~partial

\* a save begins in this step
SaveBegins == saver'.saves = saver.saves + 1

\* the k most recent of the backup times ts
MostRecent(ts, k) == {t \in ts : Cardinality({u \in ts : u > t}) < k}

\* C26: there are never more than five backups; every save first copies the
\* current rules file to a backup that was not there before, named by the
\* time of the save, and the backups left after it are the five most recent
\* of the old ones and the new one, the old ones with their content
C26_FiveNewestBackups ==
    /\ [](Cardinality(DOMAIN backups) <= 5)
    /\ [][SaveBegins =>
            /\ now \notin DOMAIN backups
            /\ now \in DOMAIN backups'
            /\ backups'[now] = rulesFile
            /\ DOMAIN backups' = MostRecent(DOMAIN backups \cup {now}, 5)
            /\ \A t \in DOMAIN backups' \ {now} : backups'[t] = backups[t]]_vars

\* this step removes the file from the projection
Removed(fid) == fid \in Projected /\ fid \notin Projected'

\* C27: a step that removes a file from the projection or moves it to
\* another path leaves every node of every other file in place, owned by
\* that file as before
C27_OthersNodesKept ==
    [][\A fid \in FileIds :
         (Removed(fid) \/ Moved(fid)) =>
            \A g \in FileIds \ {fid} : PathsOf(nodes, g) \subseteq PathsOf(nodes', g)]_vars

(***************************************************************************)
(* replayStream on its own: a finite stream written before the replay      *)
(* begins, whose entries may lack their type field (parseStreamEntry       *)
(* returns null for them) and whose handler call may throw (fails).  One   *)
(* step is one turn of the while loop: the read completes, the for loop    *)
(* awaits the handler on every message of the batch, and the loop either   *)
(* breaks or is at its next read.                                          *)
(***************************************************************************)
\* longest stream the replay starts on
MaxReplayLen == 4

ReplayEntries == {[type |-> t, fails |-> f] : t \in {"set", ""}, f \in BOOLEAN}

ReplayStreams == UNION {[1..n -> ReplayEntries] : n \in 0..MaxReplayLen}

InitReplay ==
    /\ stream \in ReplayStreams
    /\ InitRest({CfgFlat}, FALSE)

\* the for loop of replayStream over the messages ids: lastId moves to the
\* id of each message whose handler call returned, and stays when it threw.
\* r is the record [lastId, called, returned]
RECURSIVE ReplayBatch(_, _)
ReplayBatch(r, ids) ==
    IF ids = <<>> THEN r
    ELSE ReplayBatch([lastId   |-> IF stream[Head(ids)].fails THEN r.lastId ELSE Head(ids),
                      called   |-> r.called \cup {Head(ids)},
                      returned |-> IF stream[Head(ids)].fails THEN r.returned
                                   ELSE r.returned \cup {Head(ids)}],
                     Tail(ids))

\* the while loop breaks before its for loop on a read without messages
ReplayBreaksEmpty(entries) == Len(entries) = 0

\* the while loop breaks after its for loop on a batch shorter than batchSize
ReplayBreaksShort(batchLen, batchSize) == batchLen < batchSize

\* replayStream returns lastId
ReplayReturns(lastId) ==
    [pc |-> "replay_done", lastId |-> lastId, entries |-> <<>>, batchLen |-> 0]

\* replayStream: the readStreamFrom of a turn of the while loop completes
\* with the messages entries
ReplayAfterRead(entries) ==
    /\ pipeline' = IF ReplayBreaksEmpty(entries)
                   THEN ReplayReturns(pipeline.lastId)
                   ELSE [pipeline EXCEPT !.pc = "boot_batch",
                                         !.entries = entries,
                                         !.batchLen = Len(entries)]
    /\ bootReturned' = IF ReplayBreaksEmpty(entries) THEN pipeline.lastId
                       ELSE bootReturned

replayRead ==
    /\ pipeline.pc = "boot_read"
    /\ ReplayAfterRead(readStreamFrom(pipeline.lastId, BatchSize))
    /\ UNCHANGED <<storeVars, builderVars, vfsVars, rulesConfig, stateBuilder, consumer, kv,
                   storageVars, refreshTask, otherRefresh, api, handled, succeeded,
                   liveFirst>>

\* replayStream: the for loop of the turn has awaited the handler on every
\* message of the batch
ReplayAfterBatch(r) ==
    /\ handled' = handled \cup r.called
    /\ succeeded' = succeeded \cup r.returned
    /\ pipeline' = IF ReplayBreaksShort(pipeline.batchLen, BatchSize)
                   THEN ReplayReturns(r.lastId)
                   ELSE [pipeline EXCEPT !.pc = "boot_read",
                                         !.lastId = r.lastId,
                                         !.entries = <<>>]
    /\ bootReturned' = IF ReplayBreaksShort(pipeline.batchLen, BatchSize) THEN r.lastId
                       ELSE bootReturned

replayHandle ==
    /\ pipeline.pc = "boot_batch"
    /\ ReplayAfterBatch(ReplayBatch([lastId |-> pipeline.lastId, called |-> {},
                                     returned |-> {}],
                                    pipeline.entries))
    /\ UNCHANGED <<storeVars, builderVars, vfsVars, rulesConfig, stateBuilder, consumer, kv,
                   storageVars, refreshTask, otherRefresh, api, liveFirst>>

NextReplay == replayRead \/ replayHandle \/ Disconnect \/ Reconnect

SpecReplay == InitReplay /\ [][NextReplay]_vars

\* every read of the replay completes and every handler call ends
SpecReplayFair == SpecReplay /\ WF_vars(replayRead) /\ WF_vars(replayHandle)

\* C28: when replayStream returns, every entry that was in the stream after
\* fromId when the replay began and that parseStreamEntry accepts has been
\* passed to the handler
C28_AllParseablePassed ==
    pipeline.pc = "replay_done"
        => \A id \in 1..Len(stream) : parseStreamEntry(stream[id]) => id \in handled

\* C29: replayStream returns on every finite stream
C29_ReplayTerminates == <>(pipeline.pc = "replay_done")

(***************************************************************************)
(* Two refresh() calls at once.  handleRefresh calls refresh() on every    *)
(* POST and refresh() has no guard against a call that has not returned,   *)
(* so a second call runs the same code on the same state builder: it takes *)
(* the callback it finds for the original one, installs its own tracking   *)
(* callback (with its own seenHashIds) and clears the builder.             *)
(***************************************************************************)
\* refresh() of the second call up to the first read of its replay
otherBegin(loaded) ==
    /\ rulesConfig' = loaded
    /\ SetVFS(refreshKeeps(VFS))
    /\ otherRefresh' = [IdleRefresh EXCEPT !.pc = "read",
                                           !.originalCallback = getVFSCallback,
                                           !.caller = "post"]
    /\ vfsCallback' = "tracking2"
    /\ state' = EmptyMap
    /\ stats' = ZeroStats
    /\ UNCHANGED refreshTask

\* POST /api/fuse/refresh while the refresh of an earlier POST is running
HandleRefreshAgain ==
    /\ InLive
    /\ stateBuilder
    /\ refreshTask.pc # "idle"
    /\ otherRefresh.pc = "idle"
    /\ api.refreshes < MaxRefresh + 1
    /\ otherBegin(rulesFile)
    /\ api' = [api EXCEPT !.refreshes = @ + 1]
    /\ UNCHANGED <<storeVars, vfsRelevantProps, stateBuilder, consumer, kv, storageVars, pipeline,
                   historyVars>>

\* the end of the second refresh(): the callback it found restored, the
\* files its own callback has not seen removed, the counters recomputed
OtherEnd(task, B) ==
    /\ state' = B.state
    /\ stats' = B.stats
    /\ SetVFS(updateStats(RemoveUnseen(B.V, B.seen2)))
    /\ vfsCallback' = task.originalCallback
    /\ otherRefresh' = IdleRefresh
    /\ refreshTask' = [refreshTask EXCEPT !.seenHashIds = B.seen]
    /\ UNCHANGED api

\* the second refresh after the code that follows an I/O completion of its
\* replay
OtherNext(r) ==
    IF r.waiting \/ r.task.batchLen >= BatchSize \/ r.B.seen2 = {}
    THEN /\ SetBundle(r.B)
         /\ otherRefresh' =
              [r.task EXCEPT !.seenHashIds = r.B.seen2,
                             !.pc = IF r.waiting THEN "got"
                                    ELSE IF r.task.batchLen >= BatchSize THEN "read"
                                    ELSE "scan"]
         /\ refreshTask' = [refreshTask EXCEPT !.seenHashIds = r.B.seen]
         /\ UNCHANGED <<vfsCallback, api>>
    ELSE OtherEnd(r.task, r.B)

\* replayStream of the second refresh: a readStreamFrom completes
OtherRead ==
    /\ otherRefresh.pc = "read"
    /\ stats.eventsProcessed < MaxEvents
    /\ OtherNext(AfterRead(otherRefresh, readStreamFrom(otherRefresh.lastId, BatchSize)))
    /\ UNCHANGED <<storeVars, vfsRelevantProps, rulesConfig, stateBuilder, consumer, kv,
                   storageVars,
                   pipeline, historyVars>>

\* the replay handler of the second refresh: the GET of handlePropertySet
\* completes
OtherFetched ==
    /\ otherRefresh.pc = "got"
    /\ OtherNext(AfterGet(otherRefresh, vfsCallback, rulesConfig))
    /\ UNCHANGED <<storeVars, vfsRelevantProps, rulesConfig, stateBuilder, consumer, kv,
                   storageVars,
                   pipeline, historyVars>>

\* the fallback loop of the second refresh()
RECURSIVE OtherScanLoop(_, _, _, _, _)
OtherScanLoop(acc, files, order, k, cfg) ==
    IF k > Len(order) \/ acc.threw THEN acc
    ELSE OtherScanLoop(Completed([acc EXCEPT !.seen2 = @ \cup {order[k]}],
                                 onFileComplete(acc.V, cfg, order[k], files[order[k]])),
                       files, order, k + 1, cfg)

OtherScanEnd(fb) ==
    IF fb.threw
    THEN /\ SetVFS(fb.V)
         /\ otherRefresh' = IdleRefresh
         /\ refreshTask' = [refreshTask EXCEPT !.seenHashIds = fb.seen]
         /\ UNCHANGED <<state, stats, vfsCallback, api>>
    ELSE OtherEnd(otherRefresh, fb)

OtherScan ==
    /\ otherRefresh.pc = "scan"
    /\ \E order \in Orders(DOMAIN ScannedFiles) :
         OtherScanEnd(OtherScanLoop(Bundle, ScannedFiles, order, 1, rulesConfig))
    /\ UNCHANGED <<storeVars, vfsRelevantProps, rulesConfig, stateBuilder, consumer, kv,
                   storageVars,
                   pipeline, historyVars>>

\* the writer at rest once a refresh has been requested
EarlyWriter ==
    /\ api.refreshes = 0
    /\ PathWriter

\* the first POST, made when the live consumer has handled every entry
FirstRefresh ==
    /\ pipeline.pc = "live_read"
    /\ pipeline.lastId = Len(stream)
    /\ HandleRefresh

\* the program with the state builder attached and a store that stays
\* connected, refreshed by two POSTs of which the second arrives while the
\* refresh of the first is running; the first POST is made when the live
\* consumer has caught up, and nothing is written to the store from then on
NextTwoRefreshes ==
    \/ EarlyWriter
    \/ BootRead
    \/ LiveRead
    \/ PipelineFetched
    \/ FirstRefresh
    \/ RefreshRead
    \/ RefreshFetched
    \/ RefreshScan
    \/ HandleRefreshAgain
    \/ OtherRead
    \/ OtherFetched
    \/ OtherScan

SpecTwoRefreshes == InitAttached /\ [][NextTwoRefreshes]_vars

\* a refresh() call returns in this step
RefreshReturns ==
    \/ refreshTask.pc # "idle" /\ refreshTask'.pc = "idle"
    \/ otherRefresh.pc # "idle" /\ otherRefresh'.pc = "idle"

MaxCalls == 3

ConsumerKinds == {"simple", "group"}

\* the condition of the while loop of both consumers
LoopGoesOn(c) == c.running /\ c.abort \notin c.aborted

\* loop l is at its while condition: it issues its next read, or ends
AtLoopCondition(c, l) ==
    IF LoopGoesOn(c)
    THEN [c EXCEPT !.loops[l].pc = "read", !.loops[l].stopped = FALSE]
    ELSE [c EXCEPT !.loops = MapDel(@, l)]

\* startSimpleStreamConsumer / startStreamConsumer: a call made while
\* streamConsumerRunning holds returns; otherwise the flag is set, a new
\* AbortController is stored and the loop issues its first read
startConsumer(c, kind) ==
    IF c.running
    THEN [c EXCEPT !.calls = @ + 1]
    ELSE [c EXCEPT !.calls = @ + 1,
                   !.running = TRUE,
                   !.abort = c.calls + 1,
                   !.loops = MapSet(@, c.calls + 1,
                                    [kind |-> kind, pc |-> "read", stopped |-> FALSE])]

\* stopStreamConsumer: the flag is reset, the controller aborted and
\* dropped; no read is cancelled.  The loops there are have been stopped.
stopStreamConsumer(c) ==
    [c EXCEPT !.running = FALSE,
              !.aborted = @ \cup {c.abort},
              !.abort = 0,
              !.loops = [l \in DOMAIN @ |-> [@[l] EXCEPT !.stopped = TRUE]]]

\* the catch block of a loop: break when the stored controller is aborted
\* (streamConsumerAbort?.signal.aborted, undefined without a controller),
\* else the timer
AfterReadError(c, l) ==
    IF c.abort # 0 /\ c.abort \in c.aborted
    THEN [c EXCEPT !.loops = MapDel(@, l)]
    ELSE [c EXCEPT !.loops[l].pc = "pause"]

ConsumerFrame ==
    UNCHANGED <<storeVars, builderVars, vfsVars, rulesConfig, stateBuilder, kv,
                storageVars, pipeline, refreshTask, otherRefresh, api, historyVars>>

StartConsumer(kind) ==
    /\ consumer.calls < MaxCalls
    /\ consumer' = startConsumer(consumer, kind)
    /\ ConsumerFrame

StopConsumer ==
    /\ consumer.running
    /\ consumer' = stopStreamConsumer(consumer)
    /\ ConsumerFrame

\* the read of loop l returns entries: the for loop awaits the handler
ReadReturnsEntries(l) ==
    /\ consumer.loops[l].pc = "read"
    /\ consumer' = [consumer EXCEPT !.loops[l].pc = "handle"]
    /\ ConsumerFrame

\* the read of loop l returns nothing (the BLOCK timeout)
ReadReturnsNothing(l) ==
    /\ consumer.loops[l].pc = "read"
    /\ consumer' = AtLoopCondition(consumer, l)
    /\ ConsumerFrame

\* the XREADGROUP of loop l throws (readStreamFrom catches the error of its
\* XREAD and returns nothing)
ReadThrows(l) ==
    /\ consumer.loops[l].pc = "read"
    /\ consumer.loops[l].kind = "group"
    /\ consumer' = AfterReadError(consumer, l)
    /\ ConsumerFrame

\* the handler calls of the for loop of loop l have ended, or its timer has
\* fired
LoopTurnEnds(l) ==
    /\ consumer.loops[l].pc \in {"handle", "pause"}
    /\ consumer' = AtLoopCondition(consumer, l)
    /\ ConsumerFrame

NextConsumers ==
    \/ \E kind \in ConsumerKinds : StartConsumer(kind)
    \/ StopConsumer
    \/ \E l \in DOMAIN consumer.loops : ReadReturnsEntries(l)
    \/ \E l \in DOMAIN consumer.loops : ReadReturnsNothing(l)
    \/ \E l \in DOMAIN consumer.loops : ReadThrows(l)
    \/ \E l \in DOMAIN consumer.loops : LoopTurnEnds(l)

SpecConsumers == InitFrom({CfgFlat}, FALSE) /\ [][NextConsumers]_vars

\* C31: at most one consumer loop is running, a loop counting as running
\* from the time it issues a read until stopStreamConsumer is called
C31_OneConsumerLoop ==
    Cardinality({l \in DOMAIN consumer.loops : ~consumer.loops[l].stopped}) <= 1

\* this step deletes a property of the file other than filePath and leaves
\* the state builder with a filePath for it
DelKeepsComplete(fid) ==
    /\ isFileComplete(state, fid)
    /\ isFileComplete(state', fid)
    /\ DOMAIN state'[fid] \subseteq DOMAIN state[fid]
    /\ DOMAIN state'[fid] # DOMAIN state[fid]

\* C32: after a del of a property other than filePath that leaves a
\* projected file complete, the file is projected at the path rule
\* resolution gives for the reduced property map
C32_DelReplacesFile ==
    [][\A fid \in FileIds :
         (/\ DelKeepsComplete(fid)
          /\ fid \in Projected
          /\ ~PathUnder(rulesConfig, state'[fid], fid).threw
          /\ PathUnder(rulesConfig, state'[fid], fid).path # <<>>)
         => /\ fid \in Projected'
            /\ hashIdToVirtualPath'[fid] = PathUnder(rulesConfig, state'[fid], fid).path]_vars

RECURSIVE AncestorsOf(_)
AncestorsOf(p) ==
    IF p = RootPath \/ PathDirname(p) = p THEN {}
    ELSE {PathDirname(p)} \cup AncestorsOf(PathDirname(p))

\* C34: every node other than the root has all its ancestors in the path
\* index as directory nodes, and the children set of its parent holds its
\* basename
C34_TreeWellFormed ==
    \A p \in DOMAIN nodes \ {RootPath} :
        /\ \A a \in AncestorsOf(p) :
              a \in DOMAIN nodes /\ nodes[a].type = "directory"
        /\ PathDirname(p) \in DOMAIN nodes
        /\ PathBasename(p) \in nodes[PathDirname(p)].children

\* ---------------------------------------------------------------------------
\* The cached counters
\* ---------------------------------------------------------------------------

\* C40: the cached counters are the counts of the nodes: fileCount the number
\* of file nodes, directoryCount the number of directory nodes with the
\* root, totalSize the sum of the sizes of the file nodes
C40_CountersMatchNodes ==
    LET files == {p \in DOMAIN nodes : nodes[p].type = "file"}
        dirs == {p \in DOMAIN nodes : nodes[p].type = "directory"}
    IN /\ cachedStats.fileCount = Cardinality(files)
       /\ cachedStats.directoryCount = Cardinality(dirs)
       /\ cachedStats.totalSize = SumSizes(nodes, files)

\* ---------------------------------------------------------------------------
\* Set events outside the relevance set
\* ---------------------------------------------------------------------------

\* the entries whose handler is called in this step and which are set events
\* for a property outside the relevance set of the state builder
SkippedNow ==
    {id \in handled' \ handled :
        /\ stream[id].type = "set"
        /\ ~isVfsRelevantProperty(stream[id].property, vfsRelevantProps)}

\* the consumer waits for the GET of the entry at the head of its batch
AwaitsGet(task) == task.pc \in {"boot_got", "live_got"}

\* C39: a set event for a property outside the relevance set adds one to
\* propertiesSkipped, issues no GET (its handler returns at once, the
\* consumer never waits on it, propertiesFetched is not raised for it), and
\* a step that handles only such events (a read whose handler calls are all
\* for such events, no GET of an earlier entry completing in it) changes
\* neither the property maps nor the projection
C39_IrrelevantSetSkipped ==
    [][/\ stats'.propertiesSkipped = stats.propertiesSkipped + Cardinality(SkippedNow)
       /\ SkippedNow \subseteq succeeded'
       /\ AwaitsGet(pipeline') => Head(pipeline'.entries) \notin SkippedNow
       /\ (SkippedNow # {} /\ handled' \ handled = SkippedNow /\ ~AwaitsGet(pipeline))
            => /\ state' = state
               /\ vfsVars' = vfsVars
               /\ stats'.propertiesFetched = stats.propertiesFetched]_vars

\* a set event outside the relevance set has been skipped while a file is
\* projected
C39_SkippedWhileProjected ==
    /\ stats.propertiesSkipped > 0
    /\ DOMAIN hashIdToVirtualPath # {}
    /\ \E id \in handled :
          /\ stream[id].type = "set"
          /\ stream[id].hashId \in DOMAIN hashIdToVirtualPath
          /\ ~isVfsRelevantProperty(stream[id].property, vfsRelevantProps)

\* ---------------------------------------------------------------------------
\* The relevance set and the fallback field of {a|b}
\* ---------------------------------------------------------------------------

\* one rule for every file, named by the title or else the original title:
\* M/{title|originalTitle}, Unsorted/<fileName> when both are missing
CfgTitleOrOriginal ==
    Config(<<Rule("named", TRUE, 80, Grp("AND", <<>>),
                  <<Lit(<<"M", Slash>>), DefField("title", "originalTitle")>>, TRUE)>>)

NamedProps == {"filePath", "title", "originalTitle"}
NamedValues(f, p) ==
    CASE p = "filePath" -> {FilePathOf(f)}
      [] p = "title" -> {<<"x">>}
      [] OTHER -> {<<"o">>}

InitNamed == InitFrom({CfgTitleOrOriginal}, FALSE)

\* set and del events of the three properties handled by the state builder
NextNamed ==
    \E f \in FileIds, p \in NamedProps :
        \/ \E v \in NamedValues(f, p) : HandleSet(f, p, v)
        \/ ApplyDel(f, p)

SpecNamed == InitNamed /\ [][NextNamed]_vars

\* the path computed for file f would differ if property p held value v
PathChangesWith(f, p, v) ==
    PathUnder(rulesConfig, MapSet(state[f], p, v), f) # PathUnder(rulesConfig, state[f], f)

\* C36: every property whose value changes the virtual path computed for a
\* complete file under the current rule config is in the relevance set, so
\* that a set event for it is not skipped
C36_RelevanceCoversPath ==
    \A f \in FileIds : \A p \in NamedProps : \A v \in NamedValues(f, p) :
        (isFileComplete(state, f) /\ PathChangesWith(f, p, v))
            => isVfsRelevantProperty(p, vfsRelevantProps)

\* ---------------------------------------------------------------------------
\* The property maps of the state builder against the store
\* ---------------------------------------------------------------------------

\* every entry of the stream has been passed to the handler and every
\* handler call has ended: the consumer is at a read with nothing to read
StreamProcessed ==
    /\ handled = 1..Len(stream)
    /\ pipeline.pc = "live_read"
    /\ pipeline.lastId = Len(stream)

\* the values the store holds for a file, restricted to the relevance set
RelevantInStore(f) ==
    [p \in {q \in DOMAIN store[f] : isVfsRelevantProperty(q, vfsRelevantProps)}
       |-> store[f][p]]

\* entries the writer appends in a behaviour of SpecRewrite: enough to set
\* the title and the file path, delete the file path and set it again
MaxRewrite == 4

\* the file whose properties are written
RewrittenFile == "f1"

\* SET file:f1/<p> followed by XADD meta:events type=set
RewriteSet(p, v) ==
    /\ Len(stream) < MaxRewrite
    /\ store' = [store EXCEPT ![RewrittenFile] = MapSet(@, p, v)]
    /\ stream' = Append(stream, [type |-> "set", hashId |-> RewrittenFile, property |-> p])
    /\ UNCHANGED <<isConnected, disconnects, builderVars, vfsVars, rulesConfig,
                   stateBuilder, consumer, kv, storageVars, pipeline, refreshTask,
                   otherRefresh, api, historyVars>>

\* DEL file:f1/<p> followed by XADD meta:events type=del
RewriteDel(p) ==
    /\ Len(stream) < MaxRewrite
    /\ p \in DOMAIN store[RewrittenFile]
    /\ store' = [store EXCEPT ![RewrittenFile] = MapDel(@, p)]
    /\ stream' = Append(stream, [type |-> "del", hashId |-> RewrittenFile, property |-> p])
    /\ UNCHANGED <<isConnected, disconnects, builderVars, vfsVars, rulesConfig,
                   stateBuilder, consumer, kv, storageVars, pipeline, refreshTask,
                   otherRefresh, api, historyVars>>

Rewriter ==
    \E p \in WrittenProps(RewrittenFile) :
        \/ \E v \in ValuesOf(RewrittenFile, p) : RewriteSet(p, v)
        \/ RewriteDel(p)

\* main()'s pipeline on a store that stays reachable, under the rule
\* M/{title}, while the writer sets and deletes the title and the file path
\* of one file
NextRewrite ==
    \/ Rewriter
    \/ BootRead
    \/ LiveRead
    \/ PipelineFetched

SpecRewrite == InitFrom({CfgTitle}, FALSE) /\ [][NextRewrite]_vars

\* C35: once every stream entry has been processed, the property map of
\* each complete file equals the values the store holds for the file,
\* restricted to the relevance set, also when the file path of the file
\* was deleted and set again
C35_MapsMatchStore ==
    StreamProcessed =>
        \A f \in FileIds : isFileComplete(state, f) => state[f] = RelevantInStore(f)

\* ---------------------------------------------------------------------------
\* The live consumer on a stream that holds malformed entries
\* ---------------------------------------------------------------------------

\* entries appended while the live consumer runs: a full read of malformed
\* entries and one more
MaxTail == LiveCount + 1

\* an entry without type field: parseStreamEntry returns null for it
MalformedEntry == [type |-> "", hashId |-> "", property |-> ""]

\* XADD meta:events of an entry that lacks the type
TailMalformed ==
    /\ InLive
    /\ Len(stream) < MaxTail
    /\ stream' = Append(stream, MalformedEntry)
    /\ UNCHANGED <<store, isConnected, disconnects, builderVars, vfsVars, rulesConfig,
                   stateBuilder, consumer, kv, storageVars, pipeline, refreshTask,
                   otherRefresh, api, historyVars>>

\* SET file:<f>/filePath followed by XADD meta:events type=set
TailSet(f) ==
    /\ InLive
    /\ Len(stream) < MaxTail
    /\ store' = [store EXCEPT ![f] = MapSet(@, "filePath", FilePathOf(f))]
    /\ stream' = Append(stream, [type |-> "set", hashId |-> f, property |-> "filePath"])
    /\ UNCHANGED <<isConnected, disconnects, builderVars, vfsVars, rulesConfig,
                   stateBuilder, consumer, kv, storageVars, pipeline, refreshTask,
                   otherRefresh, api, historyVars>>

TailWriter == TailMalformed \/ \E f \in FileIds : TailSet(f)

\* startSimpleStreamConsumer: a readStreamFrom of the connected client
\* returns no message (nothing after lastId within blockMs, or nothing that
\* parses): the for loop has nothing to do and the while loop issues its
\* next read with the same lastId.  The two values of pc tell a read from
\* the one that follows it.
LiveReadNothing ==
    /\ pipeline.pc \in {"live_read", "live_retry"}
    /\ isConnected
    /\ readStreamFrom(pipeline.lastId, LiveCount) = <<>>
    /\ pipeline' = [pipeline EXCEPT
                      !.pc = IF @ = "live_read" THEN "live_retry" ELSE "live_read"]
    /\ UNCHANGED <<storeVars, builderVars, vfsVars, rulesConfig, stateBuilder, consumer, kv,
                   storageVars, refreshTask, otherRefresh, api, historyVars>>

\* main()'s pipeline on a reachable store; once the live consumer runs, the
\* writer appends well-formed and malformed entries
NextTail ==
    \/ TailWriter
    \/ BootRead
    \/ LiveRead
    \/ LiveReadNothing
    \/ PipelineFetched

SpecTail == InitFrom({CfgFlat}, FALSE) /\ [][NextTail]_vars

\* weak fairness of PipelineFetched, its enabling condition written out: the
\* action is enabled exactly when the consumer waits for a GET
GetCompletes == []<>(~AwaitsGet(pipeline)) \/ []<><<PipelineFetched>>_vars

\* every read and every GET of the consumer completes
SpecTailFair ==
    /\ SpecTail
    /\ WF_vars(BootRead)
    /\ WF_vars(LiveRead)
    /\ WF_vars(LiveReadNothing)
    /\ GetCompletes

\* entry i of the stream is a well-formed set or del entry
WellFormedAt(i) == i <= Len(stream) /\ parseStreamEntry(stream[i])

\* every well-formed entry of the stream has been passed to the handler
WellFormedAllHandled == \A i \in 1..MaxTail : WellFormedAt(i) => i \in handled

\* C37: every well-formed entry appended while the live consumer runs and
\* the store is reachable is eventually passed to the handler, whatever
\* malformed entries the stream holds before it: the consumer is again and
\* again at a state where no well-formed entry is left unhandled
C37_WellFormedHandled == []<>WellFormedAllHandled

\* ---------------------------------------------------------------------------
\* Leader lost and found again: KVManager and main()'s onReady callback
\* ---------------------------------------------------------------------------

\* clients constructed in a behaviour
MaxClients == 2

\* RedisClient.disconnect by KVManager.disconnectRedis: the consumer of the
\* client is stopped and the client quits; redisClient = null
disconnectRedis(k) ==
    IF k.client = 0 THEN k
    ELSE [k EXCEPT !.client = 0,
                   !.built = [r \in DOMAIN k.built |->
                                IF k.built[r].client = k.client
                                THEN [k.built[r] EXCEPT !.phase = "stopped"]
                                ELSE k.built[r]]]

\* main()'s onReady callback up to its first read: a new VirtualFileSystem
\* and a new StreamingStateBuilder on the client of the KVManager, the
\* replay from '0' about to read
onReady(k) ==
    [k EXCEPT !.built = Append(@, [client |-> k.client, phase |-> "replay", cursor |-> 0])]

\* KVManager.connectToRedis: the client at hand is disconnected, a new one
\* constructed and connected, and every onReady callback is called
connectToRedis(k) ==
    onReady([disconnectRedis(k) EXCEPT !.client = k.clients + 1, !.clients = @ + 1])

\* apiServer.start() of the APIServer built on the VirtualFileSystem of run
\* r: listen() fails when a server of an earlier run holds the port, and
\* the catch of the callback logs the error
apiServerStart(k, r) == [k EXCEPT !.listening = IF @ = 0 THEN r ELSE @]

\* no onReady callback is at its replay
NoReplayRunning == \A r \in DOMAIN kv.built : kv.built[r].phase # "replay"

LeaderFrame ==
    UNCHANGED <<isConnected, disconnects, builderVars, vfsVars, rulesConfig, stateBuilder,
                consumer, storageVars, pipeline, refreshTask, otherRefresh, api,
                historyVars>>

\* SET file:<f>/filePath followed by XADD meta:events type=set
LeaderWriter(f) ==
    /\ Len(stream) < MaxStream
    /\ store' = [store EXCEPT ![f] = MapSet(@, "filePath", FilePathOf(f))]
    /\ stream' = Append(stream, [type |-> "set", hashId |-> f, property |-> "filePath"])
    /\ UNCHANGED kv
    /\ LeaderFrame

\* LeaderDiscovery calls onLeaderFound: start()'s callback connects
LeaderFound ==
    /\ kv.leader # "up"
    /\ kv.clients < MaxClients
    /\ NoReplayRunning
    /\ kv' = [connectToRedis(kv) EXCEPT !.leader = "up"]
    /\ UNCHANGED <<stream, store>>
    /\ LeaderFrame

\* LeaderDiscovery calls onLeaderLost: start()'s callback disconnects, and
\* main()'s onDisconnect callback logs
LeaderLost ==
    /\ kv.leader = "up"
    /\ NoReplayRunning
    /\ kv' = [disconnectRedis(kv) EXCEPT !.leader = "lost"]
    /\ UNCHANGED <<stream, store>>
    /\ LeaderFrame

\* the entries a read of count entries after the cursor returns
ReadCount(cursor, count) ==
    IF Len(stream) - cursor < count THEN Len(stream) - cursor ELSE count

\* the callback after replayStream has returned: the live consumer is
\* started from the id the replay returned, then the APIServer
AfterReplay(k, r) == apiServerStart([k EXCEPT !.built[r].phase = "live"], r)

\* a read of the replay of run r completes and its entries are applied; a
\* batch shorter than the batch size ends the replay
RunReplayRead(r) ==
    /\ kv.built[r].phase = "replay"
    /\ kv.built[r].client = kv.client
    /\ kv' = IF ReadCount(kv.built[r].cursor, BatchSize) < BatchSize
             THEN AfterReplay([kv EXCEPT !.built[r].cursor =
                                            @ + ReadCount(@, BatchSize)], r)
             ELSE [kv EXCEPT !.built[r].cursor = @ + ReadCount(@, BatchSize)]
    /\ UNCHANGED <<stream, store>>
    /\ LeaderFrame

\* a read of the live consumer of run r returns entries and they are applied
RunLiveRead(r) ==
    /\ kv.built[r].phase = "live"
    /\ kv.built[r].client = kv.client
    /\ ReadCount(kv.built[r].cursor, LiveCount) > 0
    /\ kv' = [kv EXCEPT !.built[r].cursor = @ + ReadCount(@, LiveCount)]
    /\ UNCHANGED <<stream, store>>
    /\ LeaderFrame

LeaderWrites == \E f \in FileIds : LeaderWriter(f)
RunReplay == \E r \in DOMAIN kv.built : RunReplayRead(r)
RunLive == \E r \in DOMAIN kv.built : RunLiveRead(r)

\* the wiring of main(): leader changes, the pipelines of the onReady runs
\* and the writer of the store; a leader change arrives while no run is at
\* its replay
NextLeader ==
    \/ LeaderWrites
    \/ LeaderFound
    \/ LeaderLost
    \/ RunReplay
    \/ RunLive

SpecLeader == InitFrom({CfgFlat}, FALSE) /\ [][NextLeader]_vars

\* the runs whose pipeline is at its live tail on a connected client
FeedingRuns ==
    {r \in DOMAIN kv.built :
        kv.built[r].phase = "live" /\ kv.built[r].client = kv.client}

\* C38: whenever the leader is known and the callback has finished its
\* bootstrap, also after the leader was lost and found again, exactly one
\* pipeline is at its live tail and it feeds the projection the API server
\* answers from
C38_ServedProjectionFed ==
    (kv.leader = "up" /\ NoReplayRunning) => FeedingRuns = {kv.listening}

====
